---- MODULE Spec2Model ----
(***************************************************************************)
(* Model of the MP3 tagger's recognition pipeline:                         *)
(*   tagger/online_metadata.py  OnlineMetadataProvider (provider search,   *)
(*                              confidence scoring, result combination)    *)
(*   tagger/fallback_analysis.py FallbackAnalyzer (fallback stage chain)   *)
(*   tagger/core.py             MusicTagger.get_metadata_for_files         *)
(*                                                                         *)
(* Text is a sequence of one-character strings.  Python's None is the      *)
(* one-element sequence None below (no text has a multi-character          *)
(* element).  A confidence is a Python float, modelled bit for bit (see    *)
(* "floats" below).  A Python dict is a function from key names to values; *)
(* an absent key reads as None through Get, as dict.get does.              *)
(***************************************************************************)
EXTENDS Integers, Sequences, FiniteSets, TLC

\* ------------------------------------------------------------------ bounds
\* Longest input list handed to get_metadata_for_files.
MaxFiles == 2

\* ------------------------------------------------------------ Python values
None == <<"None">>

\* bool(v) of a text value: None and '' are falsy.
Truthy(v) == v # None /\ v # <<>>

\* dict.get(k) with the default None.
Get(d, k) == IF k \in DOMAIN d THEN d[k] ELSE None

\* dict.update: the keys of r overwrite those of base.
Update(base, r) ==
    [k \in (DOMAIN base) \cup (DOMAIN r) |-> IF k \in DOMAIN r THEN r[k] ELSE base[k]]

\* A function returning None instead of a dict.
NoResult == [absent |-> TRUE]
Exists(r) == "absent" \notin DOMAIN r

\* ---------------------------------------------------------------- floats
\* A Python float is an IEEE-754 double: <<m, e>> with m its 53 significand
\* bits, most significant first and m[1] = 1, and e the exponent of m[1];
\* the value is (m[1] + m[2]/2 + ... + m[53]/2^52) * 2^e.  0.0 is Zero.
\* Only non-negative values occur.  Every operation rounds to nearest, ties
\* to even, as the hardware does; long bit strings are worked on in
\* chunks of 8 bits.
Zero == <<<<>>, 0>>

\* v < 2^w as w bits
Bits(v, w) == [i \in 1..w |-> (v \div 2^(w - i)) % 2]

RECURSIVE Value(_)
\* the number a short bit string writes
Value(bits) ==
    IF bits = <<>> THEN 0
    ELSE 2 * Value(SubSeq(bits, 1, Len(bits) - 1)) + bits[Len(bits)]

Zeros(n) == [i \in 1..n |-> 0]

\* bits without its leading zeros
RECURSIVE StripZeros(_)
StripZeros(bits) == IF bits # <<>> /\ bits[1] = 0 THEN StripZeros(Tail(bits)) ELSE bits

RECURSIVE AddChunks(_, _, _, _)
\* x + y + carry of two bit strings of one length, before the bits done:
\* the lowest chunk is added and its carry goes into the rest.
AddChunks(x, y, carry, done) ==
    IF x = <<>> THEN <<carry>> \o done
    ELSE LET n == Len(x)
             low == IF n < 8 THEN n ELSE 8
             sum == Value(SubSeq(x, n - low + 1, n)) + Value(SubSeq(y, n - low + 1, n)) + carry
         IN AddChunks(SubSeq(x, 1, n - low), SubSeq(y, 1, n - low), sum \div 2^low,
                      Bits(sum % 2^low, low) \o done)

\* x + y of two bit strings of one length, one bit longer
AddBits(x, y) == AddChunks(x, y, 0, <<>>)

\* A bit string one longer than a significand, after a carry into its
\* first place or without one, as the float of exponent e.
Carried(sum, e) ==
    IF sum[1] = 1 THEN <<SubSeq(sum, 1, 53), e + 1>> ELSE <<Tail(sum), e>>

\* The double nearest to the number q.bits writes, q.bits[1] = 1 of
\* exponent e, plus a non-zero rest below the last bit when q.sticky.
Round(q, e) ==
    IF Len(q.bits) <= 53
    THEN <<q.bits \o Zeros(53 - Len(q.bits)), e>>
    ELSE IF /\ q.bits[54] = 1
            /\ \/ q.sticky
               \/ q.bits[53] = 1
               \/ \E i \in 55..Len(q.bits) : q.bits[i] = 1
    THEN Carried(AddBits(SubSeq(q.bits, 1, 53), Zeros(52) \o <<1>>), e)
    ELSE <<SubSeq(q.bits, 1, 53), e>>

\* The same for bits that may start with zeros, q.bits[1] of exponent e.
Normal(q, e) ==
    Round([bits |-> StripZeros(q.bits), sticky |-> q.sticky],
          e - (Len(q.bits) - Len(StripZeros(q.bits))))

RECURSIVE QuotientBits(_, _, _, _)
\* bits, then the next count chunks of bits of r / d, r < d, and whether
\* a rest remains.
QuotientBits(r, d, count, bits) ==
    IF count = 0 THEN [bits |-> bits, sticky |-> r # 0]
    ELSE QuotientBits((r * 256) % d, d, count - 1, bits \o Bits((r * 256) \div d, 8))

\* a * 2^k
Scaled(a, k) == <<a[1], a[2] + k>>

RECURSIVE Q(_, _)
\* n / d of two small integers as a float
Q(n, d) ==
    IF n = 0 THEN Zero
    ELSE IF n >= 2 * d THEN Scaled(Q(n, 2 * d), 1)
    ELSE IF n < d THEN Scaled(Q(2 * n, d), -1)
    ELSE Round(QuotientBits(n - d, d, 7, <<1>>), 0)

Pct(p) == Q(p, 100)
One == Q(1, 1)

QGt(a, b) ==
    IF a[1] = <<>> THEN FALSE
    ELSE IF b[1] = <<>> THEN TRUE
    ELSE IF a[2] # b[2] THEN a[2] > b[2]
    ELSE \E i \in 1..53 : /\ a[1][i] > b[1][i]
                          /\ \A j \in 1..(i - 1) : a[1][j] = b[1][j]
QGe(a, b) == a = b \/ QGt(a, b)
QLt(a, b) == QGt(b, a)

\* hi + lo of two floats, hi of the larger exponent
AddAligned(hi, lo) ==
    IF hi[2] - lo[2] > 54 THEN hi
    ELSE Normal([bits |-> AddBits(hi[1] \o Zeros(hi[2] - lo[2]),
                                  Zeros(hi[2] - lo[2]) \o lo[1]),
                 sticky |-> FALSE], hi[2] + 1)

\* a + b
QAdd(a, b) ==
    IF a[1] = <<>> THEN b
    ELSE IF b[1] = <<>> THEN a
    ELSE IF a[2] >= b[2] THEN AddAligned(a, b)
    ELSE AddAligned(b, a)

RECURSIVE Divide8s(_, _, _, _)
\* done, then bits / k chunk by chunk, r the rest of the chunks before
Divide8s(bits, k, r, done) ==
    IF bits = <<>> THEN [bits |-> done, sticky |-> r # 0]
    ELSE Divide8s(SubSeq(bits, 9, Len(bits)), k,
                  (r * 256 + Value(SubSeq(bits, 1, 8))) % k,
                  done \o Bits((r * 256 + Value(SubSeq(bits, 1, 8))) \div k, 8))

\* a changed division: the dividend itself
QDivIntSkipped(a, k) == a
\* a / k for an integer 0 < k < 128
QDivInt(a, k) ==
    IF a[1] = <<>> THEN Zero
    ELSE Normal(Divide8s(a[1] \o Zeros(11), k, 0, <<>>), a[2])

RECURSIVE Multiply8s(_, _, _, _)
\* k * bits chunk by chunk from the last one, carry coming from the chunks
\* done; one chunk longer than bits
Multiply8s(bits, k, carry, done) ==
    IF bits = <<>> THEN Bits(carry, 8) \o done
    ELSE Multiply8s(SubSeq(bits, 1, Len(bits) - 8), k,
                    (k * Value(SubSeq(bits, Len(bits) - 7, Len(bits))) + carry) \div 256,
                    Bits((k * Value(SubSeq(bits, Len(bits) - 7, Len(bits))) + carry) % 256, 8)
                        \o done)

\* k * a for an integer 0 <= k < 128
QMulInt(k, a) ==
    IF k = 0 \/ a[1] = <<>> THEN Zero
    ELSE Normal([bits |-> Multiply8s(Zeros(3) \o a[1], k, 0, <<>>), sticky |-> FALSE],
                a[2] + 11)

\* max(a, b): the first of two equal arguments.
QMax(a, b) == IF QGe(a, b) THEN a ELSE b

\* ------------------------------------------------------------------- text
UpperToLower ==
    [c \in {"A","B","C","D","E","F","G","H","I","J","K","L","M",
            "N","O","P","Q","R","S","T","U","V","W","X","Y","Z"} |->
       CASE c = "A" -> "a" [] c = "B" -> "b" [] c = "C" -> "c" [] c = "D" -> "d"
         [] c = "E" -> "e" [] c = "F" -> "f" [] c = "G" -> "g" [] c = "H" -> "h"
         [] c = "I" -> "i" [] c = "J" -> "j" [] c = "K" -> "k" [] c = "L" -> "l"
         [] c = "M" -> "m" [] c = "N" -> "n" [] c = "O" -> "o" [] c = "P" -> "p"
         [] c = "Q" -> "q" [] c = "R" -> "r" [] c = "S" -> "s" [] c = "T" -> "t"
         [] c = "U" -> "u" [] c = "V" -> "v" [] c = "W" -> "w" [] c = "X" -> "x"
         [] c = "Y" -> "y" [] c = "Z" -> "z"]

\* str.lower()
\* a changed lowering: the text as written
LowerAsWritten(s) == s

\* str.lower()
Lower(s) == [i \in 1..Len(s) |-> IF s[i] \in DOMAIN UpperToLower THEN UpperToLower[s[i]] ELSE s[i]]

\* needle in hay (substring test)
Contains(hay, needle) ==
    \E i \in 1..(Len(hay) - Len(needle) + 1) :
        SubSeq(hay, i, i + Len(needle) - 1) = needle

Dash == <<" ", "-", " ">>

\* --------------------------------------------- difflib.SequenceMatcher.ratio
RECURSIVE RunLen(_, _, _, _, _, _, _)
\* Length of the common run of a[i..ahi-1] and b[j..bhi-1] starting at i, j
\* that uses no character of skip.
RunLen(a, b, i, j, ahi, bhi, skip) ==
    IF i < ahi /\ j < bhi /\ a[i] = b[j] /\ a[i] \notin skip
    THEN 1 + RunLen(a, b, i + 1, j + 1, ahi, bhi, skip) ELSE 0

RECURSIVE RunBack(_, _, _, _, _, _)
\* Length of the common run of a[alo..i] and b[blo..j] ending at i, j.
RunBack(a, b, i, j, alo, blo) ==
    IF i >= alo /\ j >= blo /\ a[i] = b[j] THEN 1 + RunBack(a, b, i - 1, j - 1, alo, blo) ELSE 0

\* autojunk (the default of SequenceMatcher): in a second string of 200
\* characters or more, a character found more than len(b) // 100 + 1 times
\* is left out of the index the matches are looked up in.
Popular(b) ==
    IF Len(b) < 200 THEN {}
    ELSE {c \in {b[j] : j \in 1..Len(b)} :
              Cardinality({j \in 1..Len(b) : b[j] = c}) > Len(b) \div 100 + 1}

\* The longest of the blocks whose lengths len gives by start, the one
\* starting earliest in a and, among those, earliest in b; <<alo, blo, 0>>
\* when there is none.  <<i, j, size>>.
LongestBlock(len, alo, blo) ==
    LET hits == {p \in DOMAIN len : len[p] > 0}
        best == CHOOSE p \in hits :
                    \A q \in hits :
                        \/ len[p] > len[q]
                        \/ len[p] = len[q] /\ p[1] < q[1]
                        \/ len[p] = len[q] /\ p[1] = q[1] /\ p[2] <= q[2]
    IN IF hits = {} THEN <<alo, blo, 0>> ELSE <<best[1], best[2], len[best]>>

\* The block found grown over every equal character before it and after it.
Extended(a, b, found, alo, ahi, blo, bhi) ==
    LET before == RunBack(a, b, found[1] - 1, found[2] - 1, alo, blo)
        after == RunLen(a, b, found[1] + found[3], found[2] + found[3], ahi, bhi, {})
    IN <<found[1] - before, found[2] - before, before + found[3] + after>>

\* find_longest_match: the longest block of indexed characters, then grown
\* over the characters left out of the index.  <<i, j, size>>.
FindLongestMatch(a, b, alo, ahi, blo, bhi) ==
    LET popular == Popular(b)
        len == [p \in (alo..(ahi - 1)) \X (blo..(bhi - 1)) |->
                   RunLen(a, b, p[1], p[2], ahi, bhi, popular)]
        found == LongestBlock(len, alo, blo)
    IN IF popular = {} THEN found
       ELSE Extended(a, b, found, alo, ahi, blo, bhi)

RECURSIVE MatchCount(_, _, _, _, _, _)
\* The size of the block m plus the sizes of the blocks to its left and
\* to its right.
BlockSizes(a, b, m, alo, ahi, blo, bhi) ==
    IF m[3] = 0 THEN 0
    ELSE m[3] + MatchCount(a, b, alo, m[1], blo, m[2])
              + MatchCount(a, b, m[1] + m[3], ahi, m[2] + m[3], bhi)

\* Sum of the sizes of get_matching_blocks().
MatchCount(a, b, alo, ahi, blo, bhi) ==
    BlockSizes(a, b, FindLongestMatch(a, b, alo, ahi, blo, bhi), alo, ahi, blo, bhi)

\* SequenceMatcher(None, a, b).ratio() = 2*M/T, and 1.0 for two empty strings.
Ratio(a, b) ==
    IF Len(a) + Len(b) = 0 THEN One
    ELSE Q(2 * MatchCount(a, b, 1, Len(a) + 1, 1, Len(b) + 1), Len(a) + Len(b))

\* OnlineMetadataProvider._calculate_confidence
CalculateConfidence(search_info, found_artist, found_title, found_album) ==
    LET sought == <<search_info.artist, search_info.title, search_info.album>>
        found == <<found_artist, found_title, found_album>>
        compared == {i \in 1..3 : Truthy(sought[i]) /\ Truthy(found[i])}
        score == [i \in compared |-> Ratio(Lower(sought[i]), Lower(found[i]))]
        term(i) == IF i \in compared THEN score[i] ELSE Zero
        total == QAdd(QAdd(term(1), term(2)), term(3))
    IN IF compared # {} THEN QDivInt(total, Cardinality(compared)) ELSE Zero

\* ----------------------------------------------------------- file names
Digits == {"0", "1", "2", "3", "4", "5", "6", "7", "8", "9"}

RECURSIVE LStrip(_)
LStrip(s) == IF s # <<>> /\ s[1] = " " THEN LStrip(Tail(s)) ELSE s
RECURSIVE RStrip(_)
RStrip(s) == IF s # <<>> /\ s[Len(s)] = " " THEN RStrip(SubSeq(s, 1, Len(s) - 1)) ELSE s
\* str.strip()
Strip(s) == RStrip(LStrip(s))

RECURSIVE DropWhileIn(_, _)
DropWhileIn(s, chars) == IF s # <<>> /\ s[1] \in chars THEN DropWhileIn(Tail(s), chars) ELSE s

\* re.sub(r'^\d+[\s\-\.]*', '', s)
StripTrackNumber(s) ==
    IF s # <<>> /\ s[1] \in Digits
    THEN DropWhileIn(DropWhileIn(s, Digits), {" ", "-", "."})
    ELSE s

\* os.path.splitext(name)[0]: the name up to its last dot, when that dot
\* follows a character that is not a dot.
SplitExtRoot(name) ==
    LET dots == {i \in 2..Len(name) : name[i] = "." /\ \E j \in 1..(i - 1) : name[j] # "."}
    IN IF dots = {} THEN name
       ELSE SubSeq(name, 1, (CHOOSE i \in dots : \A j \in dots : j <= i) - 1)

\* s.split(sep, 1) for a separator that occurs in s
SplitOnce(s, sep) ==
    LET at == CHOOSE i \in 1..Len(s) :
                  /\ SubSeq(s, i, i + Len(sep) - 1) = sep
                  /\ \A j \in 1..(i - 1) : SubSeq(s, j, j + Len(sep) - 1) # sep
    IN <<SubSeq(s, 1, at - 1), SubSeq(s, at + Len(sep), Len(s))>>

\* OnlineMetadataProvider._extract_search_info
ExtractSearchInfo(filename, artist, title, album) ==
    LET clean_name == StripTrackNumber(SplitExtRoot(filename))
        fill == (~Truthy(artist) \/ ~Truthy(title)) /\ Contains(clean_name, Dash)
        parts == SplitOnce(clean_name, Dash)
    IN [artist |-> IF fill /\ ~Truthy(artist) THEN Strip(parts[1]) ELSE artist,
        title |-> IF fill /\ ~Truthy(title) THEN Strip(parts[2]) ELSE title,
        album |-> album,
        filename |-> filename]

\* ---------------------------------------------------------- MusicBrainz
\* A MusicBrainz exchange is [kind |-> "raise"] (the lookup raises) or
\* [kind |-> "ok", with_album, plain]: the recording lists returned for the
\* album-qualified query and for the query without the album, each empty or
\* holding the best recording
\*   [artist, title, release, year, cover, genres, id]
\* (release = None: no release list; cover: the image chosen from the
\* cover art archive as <<scheme, rest>>, or None; year 0: no date).

\* the http:// to https:// upgrade of a cover URL
UpgradeCover(cover) ==
    IF cover # None /\ cover[1] = "http://" THEN <<"https://", cover[2]>> ELSE cover

\* OnlineMetadataProvider._search_musicbrainz
SearchMusicbrainz(search_info, mb) ==
    IF mb.kind = "raise" THEN NoResult
    ELSE LET first == IF Truthy(search_info.album) THEN mb.with_album ELSE mb.plain
             list == IF first = <<>> /\ Truthy(search_info.album) THEN mb.plain ELSE first
         IN IF list = <<>> THEN NoResult
            ELSE LET best_match == list[1]
                     found_artist == IF best_match.artist = None THEN <<>> ELSE best_match.artist
                     found_title == IF best_match.title = None THEN <<>> ELSE best_match.title
                     found_album == IF best_match.release = None THEN <<>> ELSE best_match.release
                     genres == best_match.genres
                 IN [artist |-> best_match.artist,
                     title |-> best_match.title,
                     album |-> best_match.release,
                     year |-> best_match.year,
                     genre |-> IF genres # <<>> THEN genres[1] ELSE None,
                     additional_genres |-> SubSeq(genres, 1, IF Len(genres) < 5 THEN Len(genres) ELSE 5),
                     cover_url |-> UpgradeCover(best_match.cover),
                     musicbrainz_recording_id |-> best_match.id,
                     confidence |-> CalculateConfidence(search_info, found_artist,
                                                        found_title, found_album)]

\* --------------------------------------------------------------- Last.fm
\* A Last.fm exchange is [kind |-> "raise"] or [kind |-> "ok", has_artist,
\* artist, title, tags, cover]: whether the track object has an artist
\* object, that object's name, the track's title (None: not provided), its
\* top tags and its album cover.

\* OnlineMetadataProvider._search_lastfm
SearchLastfm(search_info, lf) ==
    IF lf.kind = "raise" THEN NoResult
    ELSE LET artist_name == IF lf.has_artist THEN lf.artist ELSE search_info.artist
             track_title == IF Truthy(lf.title) THEN lf.title ELSE search_info.title
         IN IF ~Truthy(artist_name) \/ ~Truthy(track_title) THEN NoResult
            ELSE [artist |-> artist_name,
                  title |-> track_title,
                  album |-> None,
                  additional_genres |-> lf.tags,
                  cover_url |-> lf.cover,
                  confidence |-> CalculateConfidence(search_info, artist_name, track_title, <<>>)]

\* a changed reading of "a or b": the first operand whatever it holds
OrFirst(a, b) == a

\* a or b on text values
Or(a, b) == IF Truthy(a) THEN a ELSE b

\* a changed source label: both names from 0.5 on
SourceLabelAtBar(mb_confidence, lastfm_confidence, primary_source, secondary_source) ==
    IF QGe(mb_confidence, Pct(50)) /\ QGe(lastfm_confidence, Pct(50))
    THEN primary_source \o " + " \o secondary_source
    ELSE primary_source

\* _combine_results, lines 757-760: both names when both confidences exceed 0.5
SourceLabel(mb_confidence, lastfm_confidence, primary_source, secondary_source) ==
    IF QGt(mb_confidence, Pct(50)) /\ QGt(lastfm_confidence, Pct(50))
    THEN primary_source \o " + " \o secondary_source
    ELSE primary_source

\* lines 733-740: Last.fm's first three genres, then those of MusicBrainz's
\* first three that no entry gathered so far equals when both are lowered
\* (a changed merge: compares the names as written)
MergeGenresCaseSensitive(lastfm_genres, mb_genres) ==
    LET top3(g) == SubSeq(g, 1, IF Len(g) < 3 THEN Len(g) ELSE 3)
        lf3 == top3(lastfm_genres)
        mb3 == top3(mb_genres)
        MergeFrom[i \in 0..Len(mb3)] ==
            IF i = 0 THEN lf3
            ELSE LET acc == MergeFrom[i - 1]
                 IN IF \E k \in 1..Len(acc) : acc[k] = mb3[i]
                    THEN acc ELSE Append(acc, mb3[i])
    IN MergeFrom[Len(mb3)]

\* lines 733-740: Last.fm's first three genres, then those of MusicBrainz's
\* first three that no entry gathered so far equals when both are lowered
MergeGenres(lastfm_genres, mb_genres) ==
    LET top3(g) == SubSeq(g, 1, IF Len(g) < 3 THEN Len(g) ELSE 3)
        lf3 == top3(lastfm_genres)
        mb3 == top3(mb_genres)
        MergeFrom[i \in 0..Len(mb3)] ==
            IF i = 0 THEN lf3
            ELSE LET acc == MergeFrom[i - 1]
                 IN IF \E k \in 1..Len(acc) : Lower(acc[k]) = Lower(mb3[i])
                    THEN acc ELSE Append(acc, mb3[i])
    IN MergeFrom[Len(mb3)]

\* OnlineMetadataProvider._combine_results
CombineResults(mb_result, lastfm_result) ==
    IF ~Exists(mb_result) /\ ~Exists(lastfm_result) THEN NoResult
    ELSE IF Exists(mb_result) /\ ~Exists(lastfm_result) THEN mb_result
    ELSE IF Exists(lastfm_result) /\ ~Exists(mb_result) THEN lastfm_result
    ELSE
      LET mb_primary == QGe(mb_result.confidence, lastfm_result.confidence)
          primary == IF mb_primary THEN mb_result ELSE lastfm_result
          primary_source == IF mb_primary THEN "MusicBrainz" ELSE "Last.fm"
          secondary_source == IF mb_primary THEN "Last.fm" ELSE "MusicBrainz"
          mb_good == QGt(mb_result.confidence, Pct(50))
          primary_year == IF "year" \in DOMAIN primary THEN primary.year ELSE 0
          core == IF mb_good
                  THEN [artist |-> Or(mb_result.artist, primary.artist),
                        title |-> Or(mb_result.title, primary.title),
                        album |-> Or(mb_result.album, primary.album),
                        year |-> IF mb_result.year # 0 THEN mb_result.year ELSE primary_year,
                        track_number |-> Or(Get(mb_result, "track_number"),
                                            Get(primary, "track_number")),
                        total_tracks |-> Or(Get(mb_result, "total_tracks"),
                                            Get(primary, "total_tracks")),
                        musicbrainz_recording_id |-> mb_result.musicbrainz_recording_id,
                        cover_url |-> mb_result.cover_url]
                  ELSE [artist |-> primary.artist,
                        title |-> primary.title,
                        album |-> primary.album,
                        year |-> primary_year,
                        track_number |-> Get(primary, "track_number"),
                        total_tracks |-> Get(primary, "total_tracks")]
          combined_genres == MergeGenres(lastfm_result.additional_genres,
                                         mb_result.additional_genres)
          genres == [additional_genres |->
                         SubSeq(combined_genres, 1,
                                IF Len(combined_genres) < 6 THEN Len(combined_genres) ELSE 6),
                     genre |-> IF combined_genres # <<>> THEN combined_genres[1]
                               ELSE Get(primary, "genre")]
          tail == [confidence |-> QMax(mb_result.confidence, lastfm_result.confidence),
                   source |-> SourceLabel(mb_result.confidence, lastfm_result.confidence,
                                          primary_source, secondary_source)]
      IN Update(Update(core, genres), tail)

\* The dict search_metadata starts from (lines 95-111).
InitialResults(current_artist, current_title, current_album) ==
    [artist |-> current_artist,
     title |-> current_title,
     album |-> current_album,
     year |-> 0,
     genre |-> None,
     musicbrainz_recording_id |-> None,
     cover_url |-> None,
     additional_genres |-> <<>>,
     track_number |-> None,
     total_tracks |-> None,
     confidence |-> Zero,
     source |-> "None"]

\* OnlineMetadataProvider.search_metadata; lastfm: a Last.fm client is
\* configured; mb, lf: what the two providers answer in this call.
SearchMetadata(filename, current_artist, current_title, current_album, lastfm, mb, lf) ==
    LET search_info == ExtractSearchInfo(filename, current_artist, current_title, current_album)
        results == InitialResults(current_artist, current_title, current_album)
    IN IF Truthy(search_info.artist) /\ Truthy(search_info.title)
       THEN LET mb_result == SearchMusicbrainz(search_info, mb)
                lastfm_result == IF lastfm THEN SearchLastfm(search_info, lf) ELSE NoResult
                best_result == CombineResults(mb_result, lastfm_result)
            IN IF Exists(best_result) THEN Update(results, best_result) ELSE results
       ELSE results

\* ------------------------------------------------- fallback stage chain
\* What the three path functions return for a file is part of its
\* descriptor (path_info): dir = _analyze_directory_structure(path),
\* fn = _analyze_filename(name), enh = _analyze_filename_enhanced(path).


\* ---------------------------------- fallback_analysis.py: analyze_path_structure
\* The blank is the only white space in the texts of the model.

Letters == (DOMAIN UpperToLower) \cup {UpperToLower[c] : c \in DOMAIN UpperToLower}
\* what \w matches
WordChars == Letters \cup Digits \cup {"_"}

\* The first position of s from position from on that holds c (0: none).
IndexFrom(s, c, from) ==
    IF \E i \in from..Len(s) : s[i] = c
    THEN CHOOSE i \in from..Len(s) : s[i] = c /\ \A j \in from..(i - 1) : s[j] # c
    ELSE 0

\* re.sub(r'\s*\[.*?\]\s*', '', s), for the brackets open and close
RECURSIVE RemoveBracketed(_, _, _)
RemoveBracketed(s, open, close) ==
    IF s = <<>> THEN <<>>
    ELSE LET rest == DropWhileIn(s, {" "})
             end == IF rest # <<>> /\ rest[1] = open THEN IndexFrom(rest, close, 2) ELSE 0
         IN IF end > 0
            THEN RemoveBracketed(DropWhileIn(SubSeq(rest, end + 1, Len(rest)), {" "}),
                                 open, close)
            ELSE <<s[1]>> \o RemoveBracketed(Tail(s), open, close)

\* re.sub(r'[_]+', ' ', s) and re.sub(r'\s+', ' ', s): each run of c becomes
\* one blank
RECURSIVE SqueezeRuns(_, _)
SqueezeRuns(s, c) ==
    IF s = <<>> THEN <<>>
    ELSE IF s[1] = c THEN <<" ">> \o SqueezeRuns(DropWhileIn(s, {c}), c)
    ELSE <<s[1]>> \o SqueezeRuns(Tail(s), c)

\* _clean_name, lines 298-310
CleanName(name) ==
    IF ~Truthy(name) THEN <<>>
    ELSE Strip(SqueezeRuns(SqueezeRuns(
             RemoveBracketed(RemoveBracketed(StripTrackNumber(name), "[", "]"), "(", ")"),
             "_"), " "))

\* str.split(sep) for a separator of any length
RECURSIVE SplitAll(_, _)
SplitAll(s, sep) ==
    IF Contains(s, sep)
    THEN LET parts == SplitOnce(s, sep) IN <<parts[1]>> \o SplitAll(parts[2], sep)
    ELSE <<s>>

\* sep.join(parts)
RECURSIVE JoinAll(_, _)
JoinAll(parts, sep) ==
    IF parts = <<>> THEN <<>>
    ELSE IF Len(parts) = 1 THEN parts[1]
    ELSE parts[1] \o sep \o JoinAll(Tail(parts), sep)

\* s holds word at position i, between two word boundaries (\bword\b)
WordAt(s, word, i) ==
    /\ i + Len(word) - 1 <= Len(s)
    /\ SubSeq(s, i, i + Len(word) - 1) = word
    /\ (i = 1 \/ s[i - 1] \notin WordChars)
    /\ (i + Len(word) > Len(s) \/ s[i + Len(word)] \notin WordChars)

AlbumWords == {<<"a", "l", "b", "u", "m">>, <<"e", "p">>, <<"l", "p">>,
               <<"s", "i", "n", "g", "l", "e">>,
               <<"c", "o", "m", "p", "i", "l", "a", "t", "i", "o", "n">>}
sGreatest == <<"g", "r", "e", "a", "t", "e", "s", "t">>
sHits == <<"h", "i", "t", "s">>

\* _looks_like_album, lines 244-254
LooksLikeAlbum(dirname) ==
    LET d == Lower(dirname)
        n == Len(d)
        year == \E i \in 1..(n - 3) :
                    /\ SubSeq(d, i, i + 1) \in {<<"1", "9">>, <<"2", "0">>}
                    /\ d[i + 2] \in Digits /\ d[i + 3] \in Digits
                    /\ (i = 1 \/ d[i - 1] \notin WordChars)
                    /\ (i + 4 > n \/ d[i + 4] \notin WordChars)
        word == \E i \in 1..n : \E w \in AlbumWords : WordAt(d, w, i)
        greatest_hits ==
            \E i \in 1..n, j \in 1..n :
                /\ i + 8 < j
                /\ SubSeq(d, i, i + 7) = sGreatest
                /\ (i = 1 \/ d[i - 1] \notin WordChars)
                /\ \A k \in (i + 8)..(j - 1) : d[k] = " "
                /\ j + 3 <= n
                /\ SubSeq(d, j, j + 3) = sHits
                /\ (j + 4 > n \/ d[j + 4] \notin WordChars)
        square == \E i \in 1..n : d[i] = "[" /\ IndexFrom(d, "]", i + 1) > 0
        round == \E i \in 1..n : d[i] = "(" /\ IndexFrom(d, ")", i + 1) > 0
    IN year \/ word \/ greatest_hits \/ square \/ round

GenericNames ==
    {<<"m", "u", "s", "i", "c">>, <<"m", "p", "3">>, <<"a", "u", "d", "i", "o">>,
     <<"s", "o", "n", "g", "s">>, <<"t", "r", "a", "c", "k", "s">>,
     <<"d", "o", "w", "n", "l", "o", "a", "d", "s">>,
     <<"n", "e", "w", " ", "f", "o", "l", "d", "e", "r">>,
     <<"u", "n", "t", "i", "t", "l", "e", "d">>, <<"m", "i", "s", "c">>,
     <<"v", "a", "r", "i", "o", "u", "s">>, <<"u", "n", "k", "n", "o", "w", "n">>,
     <<"m", "i", "x", "e", "d">>, <<"t", "e", "m", "p">>, <<"t", "m", "p">>,
     <<"t", "e", "s", "t">>}

\* _looks_like_generic_folder, lines 256-263
LooksLikeGenericFolder(dirname) == Strip(Lower(dirname)) \in GenericNames

\* _analyze_directory_structure, lines 106-152
AnalyzeDirectoryStructure(file_path) ==
    LET path_parts == SplitAll(file_path, <<"/">>)
        n == Len(path_parts)
        parent_dir == path_parts[n - 1]
        grandparent_dir == path_parts[n - 2]
        great_grandparent_dir == IF n >= 4 THEN path_parts[n - 3] ELSE None
        result == [artist |-> None, album |-> None, title |-> None, confidence |-> Zero]
    IN IF n < 3 THEN result
       ELSE IF parent_dir # <<>> /\ grandparent_dir # <<>>
       THEN IF LooksLikeAlbum(parent_dir) /\ ~LooksLikeGenericFolder(grandparent_dir)
            THEN [result EXCEPT !.artist = CleanName(grandparent_dir),
                                !.album = CleanName(parent_dir),
                                !.confidence = Pct(70)]
            ELSE result
       ELSE IF parent_dir # <<>> /\ Contains(parent_dir, Dash)
       THEN LET parts == SplitOnce(parent_dir, Dash)
            IN [result EXCEPT !.artist = CleanName(parts[1]),
                              !.album = CleanName(parts[2]),
                              !.confidence = Pct(80)]
       ELSE IF Truthy(great_grandparent_dir) /\ parent_dir # <<>> /\ grandparent_dir # <<>>
       THEN IF /\ LooksLikeGenericFolder(great_grandparent_dir)
               /\ ~LooksLikeGenericFolder(grandparent_dir)
               /\ LooksLikeAlbum(parent_dir)
            THEN [result EXCEPT !.artist = CleanName(grandparent_dir),
                                !.album = CleanName(parent_dir),
                                !.confidence = Pct(60)]
            ELSE result
       ELSE IF parent_dir # <<>> /\ ~LooksLikeGenericFolder(parent_dir)
       THEN [result EXCEPT !.album = CleanName(parent_dir), !.confidence = Pct(40)]
       ELSE result

\* filename ends with ".mp3", whatever the case of its letters
EndsWithMp3(filename) ==
    /\ Len(filename) >= 4
    /\ Lower(SubSeq(filename, Len(filename) - 3, Len(filename))) = <<".", "m", "p", "3">>

NoMatch == [matched |-> FALSE]
Groups(g1, g2) == [matched |-> TRUE, groups |-> <<g1, g2>>]

\* The number of characters of chars that s holds from position from on.
RECURSIVE RunFrom(_, _, _)
RunFrom(s, from, chars) ==
    IF from <= Len(s) /\ s[from] \in chars THEN 1 + RunFrom(s, from + 1, chars) ELSE 0

\* (.+?)\s*-\s*(.+?)\.mp3$ matched from position start of a name that ends
\* with ".mp3": the first group is the shortest that blanks and a dash
\* follow, the second what remains before ".mp3", less the leading blanks it
\* can spare.
DashGroups(filename, start) ==
    LET stem == Len(filename) - 4
        Dashed(e) == LET p == e + 1 + RunFrom(filename, e + 1, {" "})
                     IN p < stem /\ filename[p] = "-"
        ends == {e \in start..stem : Dashed(e)}
    IN IF ends = {} THEN NoMatch
       ELSE LET e == CHOOSE x \in ends : \A y \in ends : x <= y
                p == e + 1 + RunFrom(filename, e + 1, {" "})
                blanks == RunFrom(filename, p + 1, {" "})
                q == IF p + 1 + blanks > stem THEN stem ELSE p + 1 + blanks
            IN Groups(SubSeq(filename, start, e), SubSeq(filename, q, stem))

\* line 51: r'^\d+[\.\-\s]+(.+?)\s*-\s*(.+?)\.mp3$'
MatchNumbered(filename) ==
    LET digits == RunFrom(filename, 1, Digits)
        seps == RunFrom(filename, digits + 1, {".", "-", " "})
        taken == {s \in 1..seps : DashGroups(filename, digits + s + 1).matched}
    IN IF ~EndsWithMp3(filename) \/ digits = 0 \/ taken = {} THEN NoMatch
       ELSE DashGroups(filename, digits + (CHOOSE s \in taken : \A t \in taken : t <= s) + 1)

\* line 53: r'^(.+?)\s*-\s*(.+?)\.mp3$'
MatchDashed(filename) ==
    IF ~EndsWithMp3(filename) THEN NoMatch ELSE DashGroups(filename, 1)

\* line 55: r'^[Tt]rack\d+\s+(.+)\s+(\w+)\.mp3$'
MatchTrack(filename) ==
    LET stem == Len(filename) - 4
        digits == RunFrom(filename, 6, Digits)
        blanks == RunFrom(filename, 6 + digits, {" "})
        \* where the last word begins
        starts == {w \in 1..stem : \A k \in w..stem : filename[k] \in WordChars}
        word == CHOOSE w \in starts : \A v \in starts : w <= v
        taken == {s \in 1..blanks : 6 + digits + s <= word - 2}
        first == 6 + digits + (CHOOSE s \in taken : \A t \in taken : t <= s)
    IN IF \/ ~EndsWithMp3(filename)
          \/ Len(filename) < 5
          \/ Lower(SubSeq(filename, 1, 5)) # <<"t", "r", "a", "c", "k">>
          \/ digits = 0
          \/ starts = {}
       THEN NoMatch
       ELSE IF word = 1 \/ taken = {} THEN NoMatch
       ELSE IF filename[word - 1] # " " THEN NoMatch
       ELSE Groups(SubSeq(filename, first, word - 2), SubSeq(filename, word, stem))

\* line 57: r'^(.+?)_(.+?)\.mp3$'
MatchUnderscore(filename) ==
    LET stem == Len(filename) - 4
        at == {p \in 2..(stem - 1) : filename[p] = "_"}
        p == CHOOSE x \in at : \A y \in at : x <= y
    IN IF ~EndsWithMp3(filename) \/ at = {} THEN NoMatch
       ELSE Groups(SubSeq(filename, 1, p - 1), SubSeq(filename, p + 1, stem))

\* lines 49-58: what each of filename_patterns makes of the name, in order
FilenameMatches(filename) ==
    <<MatchNumbered(filename), MatchDashed(filename), MatchTrack(filename),
      MatchUnderscore(filename)>>

KnownBands == {<<"a", "c", "-", "d", "c">>, <<"d", "c", "-", "a", "c">>,
               <<"x", "-", "r", "a", "y">>, <<"k", "-", "p", "o", "p">>}

\* _looks_like_band_with_dash, lines 194-206
LooksLikeBandWithDash(name) ==
    LET n == Len(name)
        capitals == \E p \in 3..5 :
                        /\ p <= n /\ name[p] = "-"
                        /\ n - p \in 2..4
                        /\ \A k \in (1..n) \ {p} : name[k] \in Letters
        suffix == \E p \in 2..n :
                      /\ name[p] = "-"
                      /\ n - p \in 1..3
                      /\ \A k \in (p + 1)..n : name[k] \in WordChars
        prefix == \E k \in 1..3 :
                      /\ k + 2 <= n
                      /\ name[k + 1] = "-"
                      /\ \A i \in 1..k : name[i] \in WordChars
    IN capitals \/ suffix \/ prefix \/ Lower(name) \in KnownBands

\* _smart_split_artist_title, lines 208-242
SmartSplitArtistTitle(filename) ==
    LET filename_clean ==
            StripTrackNumber(JoinAll(SplitAll(filename, <<".", "m", "p", "3">>), <<>>))
        parts == SplitAll(filename_clean, Dash)
        first_two == parts[1] \o Dash \o parts[2]
    IN IF ~Contains(filename_clean, Dash) THEN <<<<>>, <<>>>>
       ELSE IF Len(parts) = 2 THEN <<CleanName(parts[1]), CleanName(parts[2])>>
       ELSE IF LooksLikeBandWithDash(first_two)
       THEN <<CleanName(first_two), CleanName(JoinAll(SubSeq(parts, 3, Len(parts)), Dash))>>
       ELSE <<CleanName(parts[1]), CleanName(JoinAll(Tail(parts), Dash))>>

NonsenseCombinations ==
    {<<<<"o", "h", "n", "e">>, <<"i", "d", "3">>>>,
     <<<<"t", "e", "s", "t">>, <<"m", "p", "3">>>>,
     <<<<"a", "u", "d", "i", "o">>, <<"f", "i", "l", "e">>>>,
     <<<<"t", "r", "a", "c", "k">>, <<"n", "u", "m", "b", "e", "r">>>>,
     <<<<"u", "n", "k", "n", "o", "w", "n">>, <<"t", "i", "t", "l", "e">>>>,
     <<<<"n", "o", "n", "a", "m", "e">>, <<"m", "p", "3">>>>,
     <<<<"u", "n", "t", "i", "t", "l", "e", "d">>, <<"s", "o", "n", "g">>>>}

\* str.isdigit()
IsDigit(s) == s # <<>> /\ \A i \in 1..Len(s) : s[i] \in Digits

\* _looks_like_nonsense without its list of combinations
LooksLikeNonsenseNoList(artist, title) ==
    LET artist_lower == Strip(Lower(artist))
        title_lower == Strip(Lower(title))
    IN \/ Len(artist_lower) <= 2 \/ Len(title_lower) <= 2
       \/ IsDigit(artist_lower) \/ IsDigit(title_lower)
       \/ artist_lower = title_lower

\* _looks_like_nonsense, lines 265-296
LooksLikeNonsense(artist, title) ==
    LET artist_lower == Strip(Lower(artist))
        title_lower == Strip(Lower(title))
    IN \/ <<artist_lower, title_lower>> \in NonsenseCombinations
       \/ Len(artist_lower) <= 2 \/ Len(title_lower) <= 2
       \/ IsDigit(artist_lower) \/ IsDigit(title_lower)
       \/ artist_lower = title_lower

\* _analyze_filename, lines 160-187: what one matching pattern yields
\* (NoResult: the pair is turned down and the next pattern is tried)
FromGroups(filename, groups) ==
    LET artist_raw == CleanName(groups[1])
        title_raw == CleanName(groups[2])
        smart == SmartSplitArtistTitle(filename)
        pair == IF Contains(filename, Dash) /\ ~LooksLikeBandWithDash(artist_raw)
                THEN <<artist_raw, title_raw>>
                ELSE IF smart[1] = <<>> \/ smart[2] = <<>> THEN <<artist_raw, title_raw>>
                ELSE smart
    IN IF /\ Len(pair[1]) > 1 /\ Len(pair[2]) > 1
          /\ ~LooksLikeNonsense(pair[1], pair[2])
       THEN [artist |-> pair[1], title |-> pair[2],
             confidence |-> IF Contains(filename, Dash) THEN Pct(80) ELSE Pct(60)]
       ELSE NoResult

\* _analyze_filename, lines 154-192
RECURSIVE FirstAccepted(_, _)
FirstAccepted(filename, matches) ==
    IF matches = <<>> THEN [artist |-> None, title |-> None, confidence |-> Zero]
    ELSE IF Head(matches).matched /\ Exists(FromGroups(filename, Head(matches).groups))
    THEN FromGroups(filename, Head(matches).groups)
    ELSE FirstAccepted(filename, Tail(matches))
AnalyzeFilename(filename) == FirstAccepted(filename, FilenameMatches(filename))

\* FallbackAnalyzer._clean_extracted_data (lines 312-319), for one of the three
\* names: a name that is set is cleaned and becomes None when at most one
\* character is left of it.
CleanExtracted(v) ==
    IF ~Truthy(v) THEN v
    ELSE IF Len(CleanName(v)) > 1 THEN CleanName(v) ELSE None

\* analyze_path_structure with the artist of the file name put first
AnalyzePathStructureFilenameFirst(path_info) ==
    LET directory_info == path_info.dir
        filename_info == path_info.fn
        artist == IF Truthy(filename_info.artist) THEN filename_info.artist
                  ELSE directory_info.artist
    IN [artist |-> CleanExtracted(artist),
        album |-> CleanExtracted(directory_info.album),
        title |-> CleanExtracted(filename_info.title),
        confidence |-> QMax(directory_info.confidence, filename_info.confidence),
        method |-> "path_analysis"]

\* FallbackAnalyzer.analyze_path_structure
AnalyzePathStructure(path_info) ==
    LET directory_info == path_info.dir
        filename_info == path_info.fn
        r0 == [artist |-> None, album |-> None, title |-> None,
               confidence |-> Zero, method |-> "path_analysis"]
        r1 == IF QGt(directory_info.confidence, Zero)
              THEN Update(r0, [artist |-> directory_info.artist,
                               album |-> directory_info.album,
                               title |-> None,
                               confidence |-> directory_info.confidence])
              ELSE r0
        r2 == IF QGt(filename_info.confidence, Zero)
              THEN [r1 EXCEPT
                      !.artist = IF ~Truthy(r1.artist) /\ Truthy(filename_info.artist)
                                 THEN filename_info.artist ELSE @,
                      !.title = IF ~Truthy(r1.title) /\ Truthy(filename_info.title)
                                THEN filename_info.title ELSE @,
                      !.confidence = IF QGt(filename_info.confidence, r1.confidence)
                                     THEN filename_info.confidence ELSE @]
              ELSE r1
    IN [r2 EXCEPT !.artist = CleanExtracted(@),
                  !.album = CleanExtracted(@),
                  !.title = CleanExtracted(@)]

\* FallbackAnalyzer._analyze_filename_enhanced, from the descriptor
AnalyzeFilenameEnhanced(path_info) ==
    Update(path_info.enh, [method |-> "enhanced_filename"])

\* FallbackAnalyzer._analyze_audio_properties.  audio is what eyed3 reads:
\* [kind |-> "raise"], [kind |-> "unreadable"] (eyed3.load returns None), or
\* [kind |-> "ok", duration (seconds, 0: none), artist, title (raw tag
\* text still readable, or None)].
AnalyzeAudioProperties(audio) ==
    LET empty == [artist |-> None, title |-> None, album |-> None,
                  confidence |-> Zero, method |-> "audio_properties"]
    IN IF audio.kind # "ok" THEN empty
       ELSE LET artist == IF Truthy(audio.artist) /\ Len(Strip(audio.artist)) > 1
                          THEN Strip(audio.artist) ELSE None
                title == IF Truthy(audio.title) /\ Len(Strip(audio.title)) > 1
                         THEN Strip(audio.title) ELSE None
                confidence == IF Truthy(artist) /\ Truthy(title) THEN Pct(50)
                              ELSE IF audio.duration # 0 /\ 60 < audio.duration
                                      /\ audio.duration < 600 THEN Pct(20)
                              ELSE Zero
            IN IF QGt(confidence, Zero)
               THEN Update(empty, [artist |-> artist, title |-> title,
                                   confidence |-> confidence])
               ELSE empty

\* FallbackAnalyzer._try_local_fingerprint; duration 0: fpcalc gives nothing
TryLocalFingerprint(duration) ==
    IF duration > 0
    THEN [artist |-> None, title |-> None, album |-> None,
          confidence |-> IF 120 < duration /\ duration < 300 THEN Pct(30)
                         ELSE IF 180 < duration /\ duration < 420 THEN Pct(40)
                         ELSE Pct(20)]
    ELSE NoResult

\* FallbackAnalyzer._extract_shazam_metadata; track: the fields of Shazam's
\* match, or NoResult when Shazam finds nothing or fails
TryShazam(track) ==
    IF Exists(track)
    THEN [artist |-> track.artist, album |-> track.album, title |-> track.title,
          confidence |-> Pct(95), cover_url |-> track.cover, genre |-> track.genre,
          year |-> track.released, spotify_url |-> track.spotify, youtube_url |-> track.youtube,
          shazam_track_id |-> track.key]
    ELSE NoResult

\* FallbackAnalyzer.analyze_audio_fingerprint with no AcoustID and no
\* ACRCloud key configured: Shazam, then the local fingerprint.
\* fp = [shazam, duration]: Shazam's answer and fpcalc's duration.
AnalyzeAudioFingerprint(fp) ==
    LET r0 == [artist |-> None, album |-> None, title |-> None, confidence |-> Zero,
               method |-> "audio_fingerprint", service |-> "None",
               acoustid |-> None, musicbrainz_id |-> None,
               cover_url |-> None, genre |-> None, year |-> None, spotify_url |-> None,
               youtube_url |-> None, shazam_track_id |-> None]
        shazam == TryShazam(fp.shazam)
        r1 == IF Exists(shazam) /\ QGt(shazam.confidence, r0.confidence)
              THEN Update(Update(r0, shazam), [service |-> "shazam"])
              ELSE r0
        local == TryLocalFingerprint(fp.duration)
    IN IF QGt(r1.confidence, Pct(80)) THEN r1
       ELSE IF Exists(local) /\ QGt(local.confidence, r1.confidence)
       THEN Update(Update(r1, local), [service |-> "local_fingerprint"])
       ELSE r1

RECURSIVE InsertDesc(_, _)
\* x placed after every element whose confidence is at least its own
InsertDesc(sorted, x) ==
    IF sorted = <<>> THEN <<x>>
    ELSE IF QGe(sorted[1].confidence, x.confidence)
         THEN <<sorted[1]>> \o InsertDesc(Tail(sorted), x)
         ELSE <<x>> \o sorted

RECURSIVE SortByConfidence(_)
\* suggestions.sort(key=confidence, reverse=True): descending and stable
SortByConfidence(s) ==
    IF s = <<>> THEN <<>>
    ELSE InsertDesc(SortByConfidence(SubSeq(s, 1, Len(s) - 1)), s[Len(s)])

RECURSIVE BestConfidence(_)
\* max(s['confidence'] for s in suggestions), suggestions not empty
BestConfidence(s) ==
    IF Len(s) = 1 THEN s[1].confidence ELSE QMax(s[1].confidence, BestConfidence(Tail(s)))

\* a stage result is kept when its confidence is above 0.0
Keep(suggestions, result) ==
    IF QGt(result.confidence, Zero) THEN Append(suggestions, result) ELSE suggestions

\* a changed bar: fingerprinting also when the best confidence is exactly 0.6
NeedsFingerprintAtBar(suggestions) ==
    suggestions = <<>> \/ ~QGt(BestConfidence(suggestions), Pct(60))

\* get_fallback_suggestions, lines 783-811: fingerprinting is needed when
\* nothing was found or the best confidence so far is below 0.6
NeedsFingerprint(suggestions) ==
    suggestions = <<>> \/ QLt(BestConfidence(suggestions), Pct(60))

\* core.py line 117: the file name holds none of the placeholder words
BadWords == {<<"o", "h", "n", "e", "_", "i", "d", "3">>,
             <<"n", "o", "n", "a", "m", "e">>,
             <<"t", "r", "a", "c", "k">>,
             <<"u", "n", "k", "n", "o", "w", "n">>,
             <<"u", "n", "t", "i", "t", "l", "e", "d">>}
\* the test of line 117 inverted
HasMeaningfulFilenameInverted(filename) ==
    \E bad_word \in BadWords : Contains(Lower(filename), bad_word)

HasMeaningfulFilename(filename) ==
    ~\E bad_word \in BadWords : Contains(Lower(filename), bad_word)

\* ------------------------------------------------------------- the inputs
sAbba == <<"A", "b", "b", "a">>
sSOS == <<"S", "O", "S">>
sArrival == <<"A", "r", "r", "i", "v", "a", "l">>
sSoundtrack == <<"S", "o", "u", "n", "d", "t", "r", "a", "c", "k">>
sXyz == <<"X", "y", "z">>
sPop == <<"p", "o", "p">>

NoDir == [artist |-> None, album |-> None, confidence |-> Zero]
NoFn == [artist |-> None, title |-> None, confidence |-> Zero]
NoEnh == [artist |-> None, title |-> None, album |-> None, confidence |-> Zero]

\* A file descriptor as scan_directory builds it (core.py lines 40-60).
Descriptor(directory, filename, artist, title, dir, fn, enh) ==
    [directory |-> directory,
     filename |-> filename,
     current_artist |-> artist,
     current_title |-> title,
     current_album |-> None,
     path_info |-> [dir |-> dir, fn |-> fn, enh |-> enh],
     suggested_artist |-> None,
     suggested_title |-> None,
     suggested_album |-> None,
     suggested_genre |-> None,
     suggested_cover_url |-> None,
     online_metadata |-> NoResult]

FnAbbaSOS(c) == [artist |-> sAbba, title |-> sSOS, confidence |-> Pct(c)]

\* The files of the model, each with what the path functions return for it.
FileDescriptors ==
    { \* tagged file
      Descriptor("/music", <<"A", "b", "b", "a", " ", "-", " ", "S", "O", "S", ".", "m", "p", "3">>, sAbba, sSOS, NoDir, FnAbbaSOS(80), NoEnh),
      \* untagged, "Artist - Title" name: filename rule, 0.8
      Descriptor("/music", <<"A", "b", "b", "a", " ", "-", " ", "S", "O", "S", ".", "m", "p", "3">>, None, None, NoDir, FnAbbaSOS(80), NoEnh),
      \* untagged, "Artist_Title" name: filename rule, 0.6
      Descriptor("/music", <<"A", "b", "b", "a", "_", "S", "O", "S", ".", "m", "p", "3">>, None, None, NoDir, FnAbbaSOS(60), NoEnh),
      \* untagged, album directory only: directory rule (d), 0.4
      Descriptor("/Arrival", <<"s", "o", "n", "g", ".", "m", "p", "3">>, None, None,
                 [artist |-> None, album |-> sArrival, confidence |-> Pct(40)], NoFn, NoEnh),
      \* untagged, nothing in the path
      Descriptor("/music", <<"s", "o", "n", "g", ".", "m", "p", "3">>, None, None, NoDir, NoFn, NoEnh),
      \* untagged, "Artist - Title" name that holds a placeholder word
      Descriptor("/music", <<"A", "b", "b", "a", " ", "-", " ", "S", "o", "u", "n", "d", "t", "r", "a", "c", "k", ".", "m", "p", "3">>, None, None, NoDir,
                 [artist |-> sAbba, title |-> sSoundtrack, confidence |-> Pct(80)], NoEnh),
      \* untagged, "Title by Artist": enhanced pattern only, 0.7
      Descriptor("/music", <<"S", "O", "S", " ", "b", "y", " ", "A", "b", "b", "a", ".", "m", "p", "3">>, None, None, NoDir, NoFn,
                 [artist |-> sAbba, title |-> sSOS, album |-> None, confidence |-> Pct(70)]) }

RECURSIVE SeqsUpTo(_, _)
\* the sequences over S of length at most n
SeqsUpTo(S, n) ==
    IF n = 0 THEN {<<>>}
    ELSE LET shorter == SeqsUpTo(S, n - 1)
         IN shorter \cup {Append(q, x) : q \in {r \in shorter : Len(r) = n - 1}, x \in S}

\* What the providers can answer in the batch model.
Recording(artist, title) ==
    [artist |-> artist, title |-> title, release |-> sArrival, year |-> 1976,
     cover |-> <<"http://", "coverartarchive">>, genres |-> <<sPop>>, id |-> "rec-1"]
MBExchanges ==
    { [kind |-> "raise"],
      [kind |-> "ok", with_album |-> <<>>, plain |-> <<>>],
      [kind |-> "ok", with_album |-> <<>>, plain |-> <<Recording(sAbba, sSOS)>>] }
LFExchanges ==
    { [kind |-> "raise"],
      [kind |-> "ok", has_artist |-> TRUE, artist |-> sXyz, title |-> sSOS, tags |-> <<>>, cover |-> None] }

\* What a fingerprinting call can meet: the call raises, or Shazam and fpcalc answer.
ShazamTrack ==
    [artist |-> sAbba, title |-> sSOS, album |-> sArrival,
     cover |-> <<"https://", "shazam">>, genre |-> sPop, released |-> <<"1", "9", "7", "6">>,
     spotify |-> <<"spotify:", "search">>, youtube |-> None, key |-> <<"4", "0">>]
FingerprintOutcomes ==
    { [kind |-> "raise"],
      [kind |-> "ok", shazam |-> NoResult, duration |-> 0],
      [kind |-> "ok", shazam |-> NoResult, duration |-> 200],
      [kind |-> "ok", shazam |-> NoResult, duration |-> 350],
      [kind |-> "ok", shazam |-> ShazamTrack, duration |-> 200] }

AudioOutcomes ==
    { [kind |-> "raise"],
      [kind |-> "unreadable"],
      [kind |-> "ok", duration |-> 200, artist |-> None, title |-> None],
      [kind |-> "ok", duration |-> 200, artist |-> sAbba, title |-> sSOS] }

\* ------------------------------------------------------------------ state
VARIABLES
    files,        \* files_data, the argument of get_metadata_for_files
    lastfm,       \* a Last.fm client is configured (OnlineMetadataProvider.lastfm)
    idx,          \* position of the for loop in files
    pc,           \* where get_metadata_for_files stands
    file_data,    \* the descriptor being processed
    online_meta,  \* the local online_meta (NoResult: None)
    suggestions,  \* fallback_suggestions
    fallback_online_meta, \* the second search's result (NoResult: not searched)
    calls,        \* the stages invoked for the current file, in order
    results,      \* the list being returned
    s_in,         \* arguments and provider answers of one search_metadata call
    mb_result,    \* its local mb_result (NoResult: None)
    lastfm_result, \* its local lastfm_result (NoResult: None)
    s_out,        \* its return value (NoResult before the return)
    sc_in,        \* arguments of one call of a confidence function
    sc_out,       \* its return value (NoResult before the return)
    al_world,     \* what the release databases answer (album recognition)
    al_disco,     \* a Discogs client is configured (AlbumRecognitionService.discogs_client)
    al_cache,     \* AlbumRecognitionService.cache
    al_hist,      \* the recognize_album calls made so far: argument, cache key, cache hit
    al_in,        \* files_info of the call under way or last made
    al_cands,     \* the candidates gathered by that call, before sorting
    al_seen,      \* processed_releases of _search_musicbrainz
    al_t,         \* position of the per-title loop of _search_musicbrainz
    al_log,       \* the provider requests and release evaluations of that call, in order
    al_out,       \* the value the last call returned (NoResult while one is under way)
    al_call,      \* which call of al_hist is running, or ran last
    al_now,       \* the clock time.time() reads, in seconds
    al_last,      \* AlbumRecognitionService.last_discogs_request
    al_sleeping,  \* the calls suspended in asyncio.sleep: their locals and waking time
    au_stat,      \* size and modification time of each audio file
    au_cache,     \* AudioRecognitionService.recognition_cache
    au_calls,     \* the recognize_audio calls: argument, key, position, outcome
    rl_now,       \* the clock time.time() reads, in fifths of a second
    rl_last,      \* OnlineMetadataProvider.last_request
    rl_log,       \* the requests sent to the providers so far: service, request, time
    rl_threads,   \* per thread, the provider call it is in: position, service, requests left
    pa_in,        \* the path given to analyze_path_structure
    pa_out,       \* its return value (NoResult before the return)
    bt_in,        \* file_paths, the argument of process_files
    bt_callback,  \* AudioRecognitionBatch.progress_callback
    bt_processed, \* the local processed of process_files
    bt_results,   \* AudioRecognitionBatch.results
    bt_log        \* the calls of set_progress_callback, the callback and recognize_audio, in order

vars == <<files, lastfm, idx, pc, file_data, online_meta, suggestions,
          fallback_online_meta, calls, results, s_in, mb_result, lastfm_result, s_out,
          sc_in, sc_out, al_world, al_disco, al_cache, al_hist, al_in, al_cands, al_seen,
          al_t, al_log, al_out, al_call, al_now, al_last, al_sleeping,
          au_stat, au_cache, au_calls,
          rl_now, rl_last, rl_log, rl_threads, pa_in, pa_out,
          bt_in, bt_callback, bt_processed, bt_results, bt_log>>

search_vars == <<s_in, mb_result, lastfm_result, s_out>>
score_vars == <<sc_in, sc_out>>
\* the state of the services the metadata engine does not touch
album_vars == <<al_world, al_disco, al_cache, al_hist, al_in, al_cands, al_seen, al_t, al_log,
                al_out, al_call, al_now, al_last, al_sleeping>>
audio_vars == <<au_stat, au_cache, au_calls>>
rate_vars == <<rl_now, rl_last, rl_log, rl_threads>>
path_vars == <<pa_in, pa_out>>
hook_vars == <<bt_in, bt_callback, bt_processed, bt_results, bt_log>>
side_vars == <<rate_vars, path_vars, hook_vars>>
aux_vars == <<score_vars, album_vars, audio_vars, side_vars>>
batch_vars == <<files, idx, file_data, online_meta, suggestions, fallback_online_meta,
                calls, results>>

GetOr(d, k, default) == IF k \in DOMAIN d THEN d[k] ELSE default

\* core.py lines 75-78
HasBasicInfo(fd) == Truthy(fd.current_artist) /\ Truthy(fd.current_title)

\* core.py lines 177-197: the fallback candidate used as it is
FallbackDirect(best_fallback) ==
    [artist |-> Get(best_fallback, "artist"),
     title |-> Get(best_fallback, "title"),
     album |-> Get(best_fallback, "album"),
     genre |-> Get(best_fallback, "genre"),
     year |-> Get(best_fallback, "year"),
     confidence |-> GetOr(best_fallback, "confidence", Zero),
     source |-> "Fallback (" \o GetOr(best_fallback, "method", "unknown") \o ")",
     fallback_method |-> GetOr(best_fallback, "method", "unknown"),
     service |-> GetOr(best_fallback, "service", "None"),
     acoustid |-> Get(best_fallback, "acoustid"),
     musicbrainz_id |-> Get(best_fallback, "musicbrainz_id"),
     shazam_track_id |-> Get(best_fallback, "shazam_track_id"),
     cover_url |-> Get(best_fallback, "cover_url"),
     spotify_url |-> Get(best_fallback, "spotify_url"),
     youtube_url |-> Get(best_fallback, "youtube_url")]

\* core.py lines 202-216: a candidate of confidence at most 0.6
FallbackLow(best_fallback) ==
    [artist |-> Get(best_fallback, "artist"),
     title |-> Get(best_fallback, "title"),
     album |-> Get(best_fallback, "album"),
     confidence |-> GetOr(best_fallback, "confidence", Zero),
     source |-> "Fallback (" \o GetOr(best_fallback, "service", "unknown") \o ")",
     fallback_method |-> GetOr(best_fallback, "method", "unknown"),
     service |-> GetOr(best_fallback, "service", "None"),
     acoustid |-> Get(best_fallback, "acoustid"),
     musicbrainz_id |-> Get(best_fallback, "musicbrainz_id"),
     shazam_track_id |-> Get(best_fallback, "shazam_track_id"),
     cover_url |-> Get(best_fallback, "cover_url"),
     spotify_url |-> Get(best_fallback, "spotify_url"),
     youtube_url |-> Get(best_fallback, "youtube_url")]

\* core.py lines 154-174: the secondary search result replaces the candidate
FallbackUpgraded(searched, best_fallback) ==
    LET kept(meta, key) == IF Truthy(Get(best_fallback, key))
                           THEN Update(meta, (key :> best_fallback[key])) ELSE meta
        tagged == Update(searched,
                         [fallback_method |-> GetOr(best_fallback, "method", "unknown"),
                          service |-> GetOr(best_fallback, "service", "None")])
        ids == kept(kept(kept(tagged, "acoustid"), "musicbrainz_id"), "shazam_track_id")
        covered == IF Truthy(Get(best_fallback, "cover_url")) /\ ~Truthy(Get(ids, "cover_url"))
                   THEN Update(ids, [cover_url |-> best_fallback.cover_url])
                   ELSE ids
    IN kept(kept(covered, "spotify_url"), "youtube_url")

\* a changed bar: the second search from 0.6 on
SearchAgainAtBar(fallback_suggestions) ==
    /\ fallback_suggestions # <<>>
    /\ QGe(GetOr(fallback_suggestions[1], "confidence", Zero), Pct(60))

\* core.py line 146: the best candidate is good enough to search with
SearchAgain(fallback_suggestions) ==
    /\ fallback_suggestions # <<>>
    /\ QGt(GetOr(fallback_suggestions[1], "confidence", Zero), Pct(60))

\* core.py lines 147-152: the second search, with the candidate's fields
FallbackSearch(fd, fallback_suggestions, has_lastfm, mb, lf) ==
    IF SearchAgain(fallback_suggestions)
    THEN LET best_fallback == fallback_suggestions[1]
         IN SearchMetadata(fd.filename, Get(best_fallback, "artist"),
                           Get(best_fallback, "title"), Get(best_fallback, "album"),
                           has_lastfm, mb, lf)
    ELSE NoResult

\* core.py lines 139-218, given what the second search returned
ProcessFallback(fallback_suggestions, searched) ==
    IF fallback_suggestions = <<>> THEN NoResult
    ELSE LET best_fallback == fallback_suggestions[1]
         IN IF SearchAgain(fallback_suggestions)
            THEN IF QGt(GetOr(searched, "confidence", Zero), Pct(50))
                 THEN FallbackUpgraded(searched, best_fallback)
                 ELSE FallbackDirect(best_fallback)
            ELSE FallbackLow(best_fallback)

\* core.py line 221
Accepted(meta) == Exists(meta) /\ QGt(GetOr(meta, "confidence", Zero), Pct(30))

\* core.py lines 221-255: the suggested fields of the record
ApplyResult(fd, meta) ==
    IF Accepted(meta)
    THEN [fd EXCEPT !.suggested_artist = Get(meta, "artist"),
                    !.suggested_title = Get(meta, "title"),
                    !.suggested_album = Get(meta, "album"),
                    !.suggested_genre = Get(meta, "genre"),
                    !.suggested_cover_url = Get(meta, "cover_url"),
                    !.online_metadata = meta]
    ELSE [fd EXCEPT !.suggested_artist = None,
                    !.suggested_title = None,
                    !.suggested_album = None,
                    !.suggested_genre = None,
                    !.suggested_cover_url = None,
                    !.online_metadata = NoResult]

\* core.py lines 235-237: source_info is None and " (via ...)" is added to it
SourceInfoRaises(meta) ==
    /\ Accepted(meta)
    /\ GetOr(meta, "fallback_method", "None") # "None"
    /\ GetOr(meta, "source", "Unknown") = "None"

\* no search_metadata call of its own is under way
ScoreIdle == sc_in = NoResult /\ sc_out = NoResult
\* the other services are not in use
AlbumIdle ==
    /\ al_world = NoResult
    /\ al_disco = FALSE
    /\ al_cache = {}
    /\ al_hist = <<>>
    /\ al_in = <<>>
    /\ al_cands = <<>>
    /\ al_seen = {}
    /\ al_t = 1
    /\ al_log = <<>>
    /\ al_out = NoResult
    /\ al_call = 0
    /\ al_now = 0
    /\ al_last = 0
    /\ al_sleeping = <<>>
AudioIdle == au_stat = <<>> /\ au_cache = {} /\ au_calls = <<>>
RateIdle == /\ rl_now = 0
            /\ rl_last = [service \in {} |-> 0]
            /\ rl_log = <<>>
            /\ rl_threads = <<>>
PathIdle == pa_in = None /\ pa_out = NoResult
HookIdle == /\ bt_in = <<>>
            /\ bt_callback = None
            /\ bt_processed = 0
            /\ bt_results = {}
            /\ bt_log = <<>>
SideIdle == RateIdle /\ PathIdle /\ HookIdle
AuxIdle == ScoreIdle /\ AlbumIdle /\ AudioIdle /\ SideIdle

SearchIdle == /\ s_in = NoResult
              /\ mb_result = NoResult
              /\ lastfm_result = NoResult
              /\ s_out = NoResult

Init ==
    /\ files \in SeqsUpTo(FileDescriptors, MaxFiles)
    /\ lastfm \in BOOLEAN
    /\ idx = 1
    /\ pc = "loop"
    /\ file_data = NoResult
    /\ online_meta = NoResult
    /\ suggestions = <<>>
    /\ fallback_online_meta = NoResult
    /\ calls = <<>>
    /\ results = <<>>
    /\ SearchIdle
    /\ AuxIdle

\* for file_data in files_data (line 72) and the choice of the branch
NextFile ==
    /\ pc = "loop"
    /\ idx <= Len(files)
    /\ file_data' = files[idx]
    /\ online_meta' = NoResult
    /\ suggestions' = <<>>
    /\ fallback_online_meta' = NoResult
    /\ calls' = <<>>
    /\ pc' = IF HasBasicInfo(files[idx]) THEN "direct_search"
             ELSE IF HasMeaningfulFilename(files[idx].filename) THEN "path"
             ELSE "direct_fingerprint"
    /\ UNCHANGED <<aux_vars, files, lastfm, idx, results, search_vars>>

\* a changed test: the cover is looked for below the bar of 0.3 only
CoverLookupNeededBelowBar(meta) ==
    /\ ~Truthy(Get(meta, "cover_url"))
    /\ QLt(GetOr(meta, "confidence", Zero), Pct(30))

\* core.py line 94: the search returned a record without a cover
CoverLookupNeeded(meta) == Exists(meta) /\ ~Truthy(Get(meta, "cover_url"))

\* a changed backfill: everything the fingerprint found is taken over
BackfillCoverAll(meta, audio_result) == Update(meta, audio_result)

\* core.py lines 99-108: the cover, the streaming links and the service of the
\* fingerprint result are put into the record
BackfillCover(meta, audio_result) ==
    LET m1 == Update(meta, [cover_url |-> audio_result.cover_url])
        m2 == IF Truthy(Get(audio_result, "spotify_url"))
              THEN Update(m1, [spotify_url |-> audio_result.spotify_url]) ELSE m1
        m3 == IF Truthy(Get(audio_result, "youtube_url"))
              THEN Update(m2, [youtube_url |-> audio_result.youtube_url]) ELSE m2
    IN IF audio_result.service # "None"
       THEN Update(m3, [cover_service |-> audio_result.service]) ELSE m3

\* lines 82-91: the provider search with the file's own tags
DirectSearch ==
    /\ pc = "direct_search"
    /\ \E mb \in MBExchanges, lf \in LFExchanges :
         online_meta' = SearchMetadata(file_data.filename, file_data.current_artist,
                                       file_data.current_title, file_data.current_album,
                                       lastfm, mb, lf)
    /\ calls' = Append(calls, "search")
    /\ pc' = IF CoverLookupNeeded(online_meta') THEN "cover_lookup" ELSE "accept"
    /\ UNCHANGED <<aux_vars, files, lastfm, fallback_online_meta, idx, file_data, suggestions, results, search_vars>>

\* lines 94-111: fingerprinting to find a cover
CoverLookup ==
    /\ pc = "cover_lookup"
    /\ \E fp \in FingerprintOutcomes :
         online_meta' =
             IF fp.kind = "raise" THEN online_meta
             ELSE LET audio_result == AnalyzeAudioFingerprint(fp)
                  IN IF Truthy(Get(audio_result, "cover_url"))
                     THEN BackfillCover(online_meta, audio_result)
                     ELSE online_meta
    /\ calls' = Append(calls, "fingerprint")
    /\ pc' = "accept"
    /\ UNCHANGED <<aux_vars, files, lastfm, fallback_online_meta, idx, file_data, suggestions, results, search_vars>>

\* lines 125-136: placeholder file name, fingerprinting at once
DirectFingerprint ==
    /\ pc = "direct_fingerprint"
    /\ \E fp \in FingerprintOutcomes :
         suggestions' =
             IF fp.kind = "raise" THEN <<>>
             ELSE LET audio_result == AnalyzeAudioFingerprint(fp)
                  IN IF QGt(audio_result.confidence, Zero) THEN <<audio_result>> ELSE <<>>
    /\ calls' = Append(calls, "fingerprint")
    /\ pc' = "select"
    /\ UNCHANGED <<aux_vars, files, lastfm, fallback_online_meta, idx, file_data, online_meta, results, search_vars>>

\* a changed chain: the enhanced file name stage only after a path analysis
\* that found nothing
PathAnalysisSkipping ==
    /\ pc = "path"
    /\ suggestions' = Keep(<<>>, AnalyzePathStructure(file_data.path_info))
    /\ calls' = Append(calls, "path")
    /\ pc' = IF suggestions' = <<>> THEN "enhanced" ELSE "audio"
    /\ UNCHANGED <<aux_vars, files, lastfm, fallback_online_meta, idx, file_data, online_meta, results,
                   search_vars>>

\* get_fallback_suggestions, stage 1 (lines 752-760)
PathAnalysis ==
    /\ pc = "path"
    /\ suggestions' = Keep(<<>>, AnalyzePathStructure(file_data.path_info))
    /\ calls' = Append(calls, "path")
    /\ pc' = "enhanced"
    /\ UNCHANGED <<aux_vars, files, lastfm, fallback_online_meta, idx, file_data, online_meta, results, search_vars>>

\* get_fallback_suggestions, stage 2 (lines 762-770)
EnhancedFilenameAnalysis ==
    /\ pc = "enhanced"
    /\ suggestions' = Keep(suggestions, AnalyzeFilenameEnhanced(file_data.path_info))
    /\ calls' = Append(calls, "enhanced")
    /\ pc' = "audio"
    /\ UNCHANGED <<aux_vars, files, lastfm, fallback_online_meta, idx, file_data, online_meta, results, search_vars>>

\* get_fallback_suggestions, stage 3 (lines 772-780), the test of lines
\* 783-788 and, when fingerprinting is skipped, the sort of line 814
AudioPropertiesAnalysis ==
    /\ pc = "audio"
    /\ \E audio \in AudioOutcomes :
         LET found == IF audio.kind = "raise" THEN suggestions
                      ELSE Keep(suggestions, AnalyzeAudioProperties(audio))
         IN IF NeedsFingerprint(found)
            THEN suggestions' = found /\ pc' = "fingerprint"
            ELSE suggestions' = SortByConfidence(found) /\ pc' = "select"
    /\ calls' = Append(calls, "audio")
    /\ UNCHANGED <<aux_vars, files, lastfm, fallback_online_meta, idx, file_data, online_meta, results, search_vars>>

\* get_fallback_suggestions, stage 4 (lines 788-811) and the sort of line 814
AudioFingerprinting ==
    /\ pc = "fingerprint"
    /\ \E fp \in FingerprintOutcomes :
         suggestions' =
             SortByConfidence(IF fp.kind = "raise" THEN suggestions
                              ELSE Keep(suggestions, AnalyzeAudioFingerprint(fp)))
    /\ calls' = Append(calls, "fingerprint")
    /\ pc' = "select"
    /\ UNCHANGED <<aux_vars, files, lastfm, fallback_online_meta, idx, file_data, online_meta, results, search_vars>>

\* lines 139-218: the best candidate, searched again when above 0.6
SelectFallback ==
    /\ pc = "select"
    /\ \E mb \in MBExchanges, lf \in LFExchanges :
         fallback_online_meta' = FallbackSearch(file_data, suggestions, lastfm, mb, lf)
    /\ online_meta' = ProcessFallback(suggestions, fallback_online_meta')
    /\ calls' = IF SearchAgain(suggestions) THEN Append(calls, "search") ELSE calls
    /\ pc' = "accept"
    /\ UNCHANGED <<aux_vars, files, lastfm, idx, file_data, suggestions, results, search_vars>>

\* lines 221-257: the result is applied to the record and the record appended,
\* unless the log line of lines 235-237 raises
AcceptResult ==
    /\ pc = "accept"
    /\ file_data' = ApplyResult(file_data, online_meta)
    /\ IF SourceInfoRaises(online_meta)
       THEN /\ pc' = "except"
            /\ UNCHANGED <<idx, results>>
       ELSE /\ results' = Append(results, file_data')
            /\ idx' = idx + 1
            /\ pc' = "loop"
    /\ UNCHANGED <<aux_vars, files, lastfm, fallback_online_meta, online_meta, suggestions, calls, search_vars>>

\* a changed handler: the record of the failed file is not appended
ExceptHandlerDropping ==
    /\ pc = "except"
    /\ idx' = idx + 1
    /\ pc' = "loop"
    /\ UNCHANGED <<aux_vars, files, lastfm, fallback_online_meta, file_data, online_meta, suggestions,
                   calls, results, search_vars>>

\* lines 259-261: the handler of the loop body
ExceptHandler ==
    /\ pc = "except"
    /\ results' = Append(results, file_data)
    /\ idx' = idx + 1
    /\ pc' = "loop"
    /\ UNCHANGED <<aux_vars, files, lastfm, fallback_online_meta, file_data, online_meta, suggestions,
                   calls, search_vars>>

\* line 263: return results
Return ==
    /\ pc = "loop"
    /\ idx > Len(files)
    /\ pc' = "done"
    /\ UNCHANGED <<aux_vars, files, lastfm, fallback_online_meta, idx, file_data, online_meta, suggestions,
                   calls, results, search_vars>>

Next ==
    \/ NextFile
    \/ DirectSearch
    \/ CoverLookup
    \/ DirectFingerprint
    \/ PathAnalysis
    \/ EnhancedFilenameAnalysis
    \/ AudioPropertiesAnalysis
    \/ AudioFingerprinting
    \/ SelectFallback
    \/ AcceptResult
    \/ ExceptHandler
    \/ Return

Spec == Init /\ [][Next]_vars

\* --------------------------------------------- one search_metadata call
sQueen == <<"Q", "u", "e", "e", "n">>
sBohemianRhapsody == <<"B", "o", "h", "e", "m", "i", "a", "n", " ", "R", "h", "a", "p", "s", "o", "d", "y">>
sNightAtTheOpera == <<"A", " ", "N", "i", "g", "h", "t", " ", "a", "t", " ", "t", "h", "e", " ", "O", "p", "e", "r", "a">>
sSosx == <<"S", "O", "S", "x">>
sDisco == <<"d", "i", "s", "c", "o">>
sPopCap == <<"P", "o", "p">>
sRock == <<"r", "o", "c", "k">>
sJazz == <<"j", "a", "z", "z">>
sBlues == <<"b", "l", "u", "e", "s">>
sSoul == <<"s", "o", "u", "l">>
sFunk == <<"f", "u", "n", "k">>
\* Texts whose three scores are 5/6, 1/2 and 1/6.
sAbcdef == <<"a", "b", "c", "d", "e", "f">>
sAbcdex == <<"a", "b", "c", "d", "e", "x">>
sAx == <<"a", "x">>
sAx10 == <<"a", "x", "x", "x", "x", "x", "x", "x", "x", "x", "x">>
FileSong == <<"s", "o", "n", "g", ".", "m", "p", "3">>
FileAbbaSOS == <<"A", "b", "b", "a", " ", "-", " ", "S", "O", "S", ".", "m", "p", "3">>

\* The arguments of the call.
SearchQueries ==
    { [filename |-> FileSong, artist |-> sQueen, title |-> sBohemianRhapsody, album |-> None],
      [filename |-> FileSong, artist |-> sAbba, title |-> sSOS, album |-> None],
      [filename |-> FileSong, artist |-> sAbba, title |-> sSOS, album |-> sArrival],
      [filename |-> FileAbbaSOS, artist |-> None, title |-> None, album |-> None],
      [filename |-> FileSong, artist |-> None, title |-> None, album |-> None],
      [filename |-> FileSong, artist |-> sAbcdef, title |-> <<"a", "b">>, album |-> <<"a">>] }

\* What MusicBrainz can answer: the lookup raises, finds nothing, or returns
\* one recording for both forms of the query.
MBRecordings ==
    { Recording(sAbba, sSOS),
      [artist |-> sQueen, title |-> sBohemianRhapsody, release |-> sNightAtTheOpera,
       year |-> 1975, cover |-> None, genres |-> <<>>, id |-> "rec-2"],
      [artist |-> None, title |-> sSosx, release |-> None,
       year |-> 0, cover |-> None, genres |-> <<sPop>>, id |-> "rec-3"],
      [artist |-> sXyz, title |-> sSOS, release |-> sArrival,
       year |-> 1976, cover |-> None, genres |-> <<>>, id |-> "rec-4"],
      [artist |-> sAbba, title |-> sSOS, release |-> sArrival,
       year |-> 1976, cover |-> None, genres |-> <<sPopCap, sRock, sPop, sJazz>>, id |-> "rec-5"],
      [artist |-> sAbba, title |-> sSOS, release |-> sArrival,
       year |-> 1976, cover |-> None, genres |-> <<sRock, sJazz, sBlues>>, id |-> "rec-6"],
      [artist |-> sAbcdex, title |-> sAx, release |-> sAx10,
       year |-> 0, cover |-> None, genres |-> <<>>, id |-> "rec-7"] }
MBSearchExchanges ==
    { [kind |-> "raise"], [kind |-> "ok", with_album |-> <<>>, plain |-> <<>>] }
    \cup { [kind |-> "ok", with_album |-> <<r>>, plain |-> <<r>>] : r \in MBRecordings }

\* What Last.fm can answer.
LFSearchExchanges ==
    { [kind |-> "raise"],
      [kind |-> "ok", has_artist |-> TRUE, artist |-> sAbba, title |-> sSOS,
       tags |-> <<sDisco, sPop>>,
       cover |-> <<"https://", "lastfm">>],
      [kind |-> "ok", has_artist |-> TRUE, artist |-> sXyz, title |-> sSOS, tags |-> <<>>, cover |-> None],
      [kind |-> "ok", has_artist |-> TRUE, artist |-> sAbba, title |-> sSOS,
       tags |-> <<sDisco, sPop, sSoul, sFunk>>, cover |-> None],
      [kind |-> "ok", has_artist |-> TRUE, artist |-> sAbba, title |-> sSOS,
       tags |-> <<sPop, sPopCap>>, cover |-> None],
      [kind |-> "ok", has_artist |-> FALSE, artist |-> None, title |-> None, tags |-> <<>>,
       cover |-> None],
      [kind |-> "ok", has_artist |-> TRUE, artist |-> None, title |-> sSOS, tags |-> <<>>,
       cover |-> None],
      [kind |-> "ok", has_artist |-> TRUE, artist |-> sAbcdef, title |-> <<"a", "b">>,
       tags |-> <<>>, cover |-> None] }

SearchInputs ==
    { [query |-> q, mb |-> mb, lf |-> lf] :
          q \in SearchQueries, mb \in MBSearchExchanges, lf \in LFSearchExchanges }

\* search_info of the call under way (line 93)
SearchInfo ==
    ExtractSearchInfo(s_in.query.filename, s_in.query.artist, s_in.query.title,
                      s_in.query.album)

BatchIdle ==
    /\ files = <<>>
    /\ idx = 1
    /\ file_data = NoResult
    /\ online_meta = NoResult
    /\ suggestions = <<>>
    /\ fallback_online_meta = NoResult
    /\ calls = <<>>
    /\ results = <<>>

InitSearch ==
    /\ BatchIdle
    /\ AuxIdle
    /\ lastfm \in BOOLEAN
    /\ pc = "search"
    /\ s_in \in SearchInputs
    /\ mb_result = NoResult
    /\ lastfm_result = NoResult
    /\ s_out = NoResult

\* lines 93-114: nothing is searched without both an artist and a title
SearchStart ==
    /\ pc = "search"
    /\ IF Truthy(SearchInfo.artist) /\ Truthy(SearchInfo.title)
       THEN pc' = "search_mb" /\ s_out' = s_out
       ELSE /\ pc' = "search_done"
            /\ s_out' = InitialResults(s_in.query.artist, s_in.query.title, s_in.query.album)
    /\ UNCHANGED <<batch_vars, aux_vars, lastfm, s_in, mb_result, lastfm_result>>

\* a changed search: a MusicBrainz failure ends the provider queries
QueryMusicbrainzAborting ==
    /\ pc = "search_mb"
    /\ mb_result' = SearchMusicbrainz(SearchInfo, s_in.mb)
    /\ pc' = IF lastfm /\ s_in.mb.kind # "raise" THEN "search_lastfm" ELSE "search_combine"
    /\ UNCHANGED <<batch_vars, aux_vars, lastfm, s_in, lastfm_result, s_out>>

\* lines 119-123: MusicBrainz first, Last.fm only when a client is configured
QueryMusicbrainz ==
    /\ pc = "search_mb"
    /\ mb_result' = SearchMusicbrainz(SearchInfo, s_in.mb)
    /\ pc' = IF lastfm THEN "search_lastfm" ELSE "search_combine"
    /\ UNCHANGED <<batch_vars, aux_vars, lastfm, s_in, lastfm_result, s_out>>

\* line 124
QueryLastfm ==
    /\ pc = "search_lastfm"
    /\ lastfm_result' = SearchLastfm(SearchInfo, s_in.lf)
    /\ pc' = "search_combine"
    /\ UNCHANGED <<batch_vars, aux_vars, lastfm, s_in, mb_result, s_out>>

\* lines 126-130
CombineAndReturn ==
    /\ pc = "search_combine"
    /\ LET results0 == InitialResults(s_in.query.artist, s_in.query.title, s_in.query.album)
           best_result == CombineResults(mb_result, lastfm_result)
       IN s_out' = IF Exists(best_result) THEN Update(results0, best_result) ELSE results0
    /\ pc' = "search_done"
    /\ UNCHANGED <<batch_vars, aux_vars, lastfm, s_in, mb_result, lastfm_result>>

NextSearch ==
    \/ SearchStart
    \/ QueryMusicbrainz
    \/ QueryLastfm
    \/ CombineAndReturn

SpecSearch == InitSearch /\ [][NextSearch]_vars

\* ------------------------------------------- album_recognition.py: scoring
\* files_info is a sequence of [title, artist] (None: the key is missing or
\* empty); album_tracks is the sequence of the release's track titles.

\* a changed fuzzy test: never similar
FuzzyMatchNever(str1, str2) == FALSE

\* AlbumRecognitionService._fuzzy_match with the default threshold 0.8
FuzzyMatch(str1, str2) ==
    IF str1 = <<>> \/ str2 = <<>> THEN FALSE
    ELSE LET longer == IF Len(str1) > Len(str2) THEN str1 ELSE str2
             shorter == IF Len(str1) > Len(str2) THEN str2 ELSE str1
             matches == Cardinality({i \in 1..Len(shorter) :
                                        \E j \in 1..Len(longer) : longer[j] = shorter[i]})
         IN QGe(Q(matches, Len(longer)), Pct(80))

\* [f.get('title', '').lower().strip() for f in files_info if f.get('title')]
RECURSIVE FileTitles(_)
FileTitles(files_info) ==
    IF files_info = <<>> THEN <<>>
    ELSE LET f == files_info[1]
         IN IF Truthy(f.title) THEN <<Strip(Lower(f.title))>> \o FileTitles(Tail(files_info))
            ELSE FileTitles(Tail(files_info))

\* min(confidence, 1.0)
MinOne(confidence) == IF QGt(confidence, One) THEN One ELSE confidence

\* confidence += 0.1 when the track count is within 2 of the file count
WithBonus(confidence, track_count_diff) ==
    IF track_count_diff <= 2 /\ -track_count_diff <= 2 THEN QAdd(confidence, Pct(10))
    ELSE confidence

\* Is the file title similar to one of the album titles?
Similar(ft, album_titles) ==
    \E j \in 1..Len(album_titles) :
        /\ ft # <<>>
        /\ album_titles[j] # <<>>
        /\ \/ Contains(album_titles[j], ft)
           \/ Contains(ft, album_titles[j])
           \/ FuzzyMatch(ft, album_titles[j])

\* The score of the lowered, trimmed file titles against the album's.
TitleConfidence(file_titles, album_titles) ==
    MinOne(WithBonus(
        QDivInt(QAdd(QMulInt(Cardinality({i \in 1..Len(file_titles) :
                                 \E j \in 1..Len(album_titles) :
                                     album_titles[j] = file_titles[i]}), One),
                     QMulInt(Cardinality({i \in 1..Len(file_titles) :
                                 Similar(file_titles[i], album_titles)}), Pct(70))),
                Len(file_titles)),
        Len(album_titles) - Len(file_titles)))

\* AlbumRecognitionService._calculate_confidence
AlbumConfidence(files_info, album_tracks) ==
    IF files_info = <<>> \/ album_tracks = <<>> THEN Zero
    ELSE IF FileTitles(files_info) = <<>> THEN Zero
    ELSE TitleConfidence(FileTitles(files_info),
                         [j \in 1..Len(album_tracks) |-> Strip(Lower(album_tracks[j]))])

\* ---------------------------------------- one call of a confidence function
MaxFileTitles == 3
MaxTracks == 4

sSo == <<"s", "o">>
sSpaceSos == <<" ", "s", "O", "s">>
sAbcdx == <<"a", "b", "c", "d", "x">>
sAbcde == <<"a", "b", "c", "d", "e">>

\* The texts the six arguments of _calculate_confidence are drawn from.
MatchTexts == {None, <<>>, <<"a", "b">>, <<"A", "B">>, <<"a", "c">>}
\* Three scores, 5/6, 1/2 and 1/6, whose mean the floats make
\* 0.5000000000000001.
RoundedMean ==
    [kind |-> "match",
     search_info |-> [artist |-> sAbcdef, title |-> <<"a", "b">>, album |-> <<"a">>],
     found |-> <<sAbcdex, sAx, sAx10>>]
\* Found titles of 200 characters, where autojunk sets in: "abab...ab", and
\* the same with one "1" in it.
LongTitle == [i \in 1..200 |-> IF i % 2 = 1 THEN "a" ELSE "b"]
LongTitleWithDigit == [LongTitle EXCEPT ![100] = "1"]
LongMatches ==
    { [kind |-> "match",
       search_info |-> [artist |-> None, title |-> qt, album |-> None],
       found |-> <<None, ft, None>>] :
          qt \in {<<"x", "a", "b">>, <<"a", "1", "a">>},
          ft \in {LongTitle, LongTitleWithDigit} }
MatchInputs ==
    { [kind |-> "match",
       search_info |-> [artist |-> qa, title |-> qt, album |-> ql],
       found |-> <<fa, ft, fl>>] :
          qa \in MatchTexts, qt \in MatchTexts, ql \in MatchTexts,
          fa \in MatchTexts, ft \in MatchTexts, fl \in MatchTexts }
    \cup {RoundedMean} \cup LongMatches

TitledFile(title) == [title |-> title, artist |-> None]
FileTitleChoices == {None, sSpaceSos, sSo, sAbcdx}
TrackTitleChoices == {sSOS, sAbcde, sXyz}
\* ten files whose titles are ten of the twelve track titles of a release
TenFiles == [i \in 1..10 |-> TitledFile(<<<<"a", "b", "c", "d", "e", "f", "g", "h", "i", "j">>[i]>>)]
TwelveTracks == [i \in 1..12 |-> <<<<"A", "B", "C", "D", "E", "F", "G", "H", "I", "J", "K", "L">>[i]>>]
AlbumInputs ==
    { [kind |-> "album", files_info |-> [i \in 1..Len(t) |-> TitledFile(t[i])],
       album_tracks |-> a] :
          t \in SeqsUpTo(FileTitleChoices, MaxFileTitles),
          a \in SeqsUpTo(TrackTitleChoices, MaxTracks) }
    \cup { [kind |-> "album", files_info |-> TenFiles, album_tracks |-> TwelveTracks] }

InitScores ==
    /\ BatchIdle
    /\ SideIdle
    /\ SearchIdle
    /\ lastfm = FALSE
    /\ pc = "score"
    /\ AlbumIdle
    /\ AudioIdle
    /\ sc_in \in MatchInputs \cup AlbumInputs
    /\ sc_out = NoResult

\* OnlineMetadataProvider._calculate_confidence is called
ScoreMatch ==
    /\ pc = "score"
    /\ sc_in.kind = "match"
    /\ sc_out' = CalculateConfidence(sc_in.search_info, sc_in.found[1], sc_in.found[2],
                                     sc_in.found[3])
    /\ pc' = "score_done"
    /\ UNCHANGED <<batch_vars, search_vars, side_vars, album_vars, audio_vars, lastfm, sc_in>>

\* AlbumRecognitionService._calculate_confidence is called
ScoreAlbumMatch ==
    /\ pc = "score"
    /\ sc_in.kind = "album"
    /\ sc_out' = AlbumConfidence(sc_in.files_info, sc_in.album_tracks)
    /\ pc' = "score_done"
    /\ UNCHANGED <<batch_vars, search_vars, side_vars, album_vars, audio_vars, lastfm, sc_in>>

NextScores ==
    \/ ScoreMatch
    \/ ScoreAlbumMatch

SpecScores == InitScores /\ [][NextScores]_vars

\* ------------------------------------- album_recognition.py: recognize_album
\* A release database answers a search with [kind |-> "raise"] or
\* [kind |-> "ok", releases |-> <<...>>]. A MusicBrainz release is
\* [id, tracks, detail]: its identifier, the track titles get_release_by_id
\* returns, and whether that request succeeds. A Discogs release is
\* [id, tracks, usable, detail]: usable is FALSE for a master or a release
\* without title, detail is FALSE when reading its attributes raises.

\* The characters of the texts in use, in code point order.
AsciiOrder ==
    <<" ", "0", "1", "2", "3", "4", "5", "6", "7", "8", "9",
      "A", "B", "C", "D", "E", "F", "G", "H", "I", "J", "K", "L", "M",
      "N", "O", "P", "Q", "R", "S", "T", "U", "V", "W", "X", "Y", "Z",
      "a", "b", "c", "d", "e", "f", "g", "h", "i", "j", "k", "l", "m",
      "n", "o", "p", "q", "r", "s", "t", "u", "v", "w", "x", "y", "z">>
CodePoint(c) == CHOOSE i \in 1..Len(AsciiOrder) : AsciiOrder[i] = c

RECURSIVE TextLess(_, _)
\* a < b for two str values
TextLess(a, b) ==
    IF b = <<>> THEN FALSE
    ELSE IF a = <<>> THEN TRUE
    ELSE IF a[1] = b[1] THEN TextLess(Tail(a), Tail(b))
    ELSE CodePoint(a[1]) < CodePoint(b[1])

RECURSIVE InsertText(_, _)
InsertText(sorted, x) ==
    IF sorted = <<>> THEN <<x>>
    ELSE IF TextLess(x, sorted[1]) THEN <<x>> \o sorted
    ELSE <<sorted[1]>> \o InsertText(Tail(sorted), x)

RECURSIVE SortTexts(_)
\* sorted(list of str)
SortTexts(s) == IF s = <<>> THEN <<>> ELSE InsertText(SortTexts(Tail(s)), s[1])

RECURSIVE Field(_, _)
\* [f.get(k, '') for f in files_info if f.get(k)]
Field(files_info, k) ==
    IF files_info = <<>> THEN <<>>
    ELSE IF Truthy(files_info[1][k]) THEN <<files_info[1][k]>> \o Field(Tail(files_info), k)
    ELSE Field(Tail(files_info), k)

\* AlbumRecognitionService._generate_cache_key: the tuple that is hashed
GenerateCacheKey(files_info) ==
    SortTexts(Field(files_info, "title")) \o SortTexts(Field(files_info, "artist"))

\* titles of _search_musicbrainz (line 145)
SearchTitles(files_info) ==
    LET raw == Field(files_info, "title") IN [i \in 1..Len(raw) |-> Strip(raw[i])]

\* AlbumRecognitionService._evaluate_mb_release
EvaluateMbRelease(release, files_info) ==
    IF ~release.detail THEN NoResult
    ELSE [external_id |-> release.id,
          source |-> "musicbrainz",
          track_count |-> Len(release.tracks),
          confidence |-> AlbumConfidence(files_info, release.tracks)]

RECURSIVE ProcessMbReleases(_, _, _)
\* the loop over a release-list (lines 165-173 and 186-194); acc is
\* [seen, cands, log]
ProcessMbReleases(list, acc, files_info) ==
    IF list = <<>> THEN acc
    ELSE LET release == list[1]
             candidate == EvaluateMbRelease(release, files_info)
             kept == Exists(candidate) /\ QGt(candidate.confidence, Pct(20))
         IN IF release.id \in acc.seen
            THEN ProcessMbReleases(Tail(list), acc, files_info)
            ELSE ProcessMbReleases(Tail(list),
                     [seen |-> acc.seen \cup {release.id},
                      cands |-> IF kept THEN Append(acc.cands, candidate) ELSE acc.cands,
                      log |-> Append(acc.log, <<"evaluate", release.id>>)],
                     files_info)

DigitChars == <<"1", "2", "3", "4", "5", "6", "7", "8", "9">>
\* f'Track {i}'
TrackName(i) == <<"T", "r", "a", "c", "k", " ", DigitChars[i]>>

\* AlbumRecognitionService._evaluate_discogs_release
EvaluateDiscogsRelease(release, files_info) ==
    IF ~release.detail THEN NoResult
    ELSE LET tracks == IF release.tracks # <<>> THEN release.tracks
                       ELSE [i \in 1..Len(files_info) |-> TrackName(i)]
         IN [external_id |-> release.id,
             source |-> "discogs",
             track_count |-> Len(tracks),
             confidence |-> AlbumConfidence(files_info, tracks)]

RECURSIVE ProcessDiscogsReleases(_, _, _)
\* the loop over the Discogs search results (lines 300-321); acc is
\* [cands, log, processed_count]
ProcessDiscogsReleases(list, acc, files_info) ==
    IF list = <<>> \/ acc.processed_count >= 15 THEN acc
    ELSE LET release == list[1]
             candidate == EvaluateDiscogsRelease(release, files_info)
             kept == Exists(candidate) /\ QGt(candidate.confidence, Pct(30))
         IN IF ~release.usable
            THEN ProcessDiscogsReleases(Tail(list), acc, files_info)
            ELSE ProcessDiscogsReleases(Tail(list),
                     [cands |-> IF kept THEN Append(acc.cands, candidate) ELSE acc.cands,
                      log |-> Append(acc.log, <<"evaluate", release.id>>),
                      processed_count |-> acc.processed_count + (IF kept THEN 1 ELSE 0)],
                     files_info)

\* max((c.confidence for c in candidates), default=0)
MaxConfidence(candidates) ==
    IF candidates = <<>> THEN Zero ELSE BestConfidence(candidates)

\* a changed test: Discogs is asked only when MusicBrainz found nothing
DiscogsNeededWhenEmpty(candidates) == candidates = <<>>

\* line 114
DiscogsNeeded(candidates) ==
    Len(candidates) < 2 \/ QLt(MaxConfidence(candidates), Pct(60))

\* a changed test: the per-title searches need at least three titles
TrackSearchNeededFromThree(candidates, titles) == Len(candidates) < 3 /\ Len(titles) >= 3

\* line 176
TrackSearchNeeded(candidates, titles) == Len(candidates) < 3 /\ titles # <<>>

\* a changed cut: the list as sorted, whatever its length
TopFiveUncut(candidates) == candidates

\* candidates[:5]
TopFive(candidates) == SubSeq(candidates, 1, IF Len(candidates) < 5 THEN Len(candidates) ELSE 5)

\* ------------------------------------------- recognize_album calls in a row
MaxAlbumCalls == 2
\* the calls begun while another call is suspended
MaxOverlappingCalls == 1
MaxAlbumTime == 2
\* line 59, in seconds
DiscogsDelay == 1

tA == <<"a">>
tB == <<"b">>
tC == <<"c">>
tD == <<"d">>
tX == <<"x">>

AlbumFile(title, artist) == [title |-> title, artist |-> artist]
\* The arguments of the calls: nothing, one file, the same file twice, two
\* files, the same two with their artists swapped, the same two in the other
\* order, three and four files of one artist, a file without title, a file
\* without artist.
AlbumFileLists ==
    { <<>>,
      <<AlbumFile(tA, sAbba)>>,
      <<AlbumFile(tA, sAbba), AlbumFile(tA, sAbba)>>,
      <<AlbumFile(tA, sAbba), AlbumFile(tB, sXyz)>>,
      <<AlbumFile(tA, sXyz), AlbumFile(tB, sAbba)>>,
      <<AlbumFile(tB, sXyz), AlbumFile(tA, sAbba)>>,
      <<AlbumFile(tA, sAbba), AlbumFile(tB, sAbba), AlbumFile(tC, sAbba)>>,
      <<AlbumFile(tA, sAbba), AlbumFile(tB, sAbba), AlbumFile(tC, sAbba), AlbumFile(tD, sAbba)>>,
      <<AlbumFile(None, sAbba)>>,
      <<AlbumFile(tA, None)>> }

\* Track lists: all of a, b, c; a among six or two tracks; no known title.
Full == <<tA, tB, tC>>
One6 == <<tA, tX, tX, tX, tX, tX>>
One2 == <<tA, tX>>
None6 == <<tX, tX, tX, tX, tX, tX>>

MbRelease(id, tracks) == [id |-> id, tracks |-> tracks, detail |-> TRUE]
DiscogsRelease(id, tracks) == [id |-> id, tracks |-> tracks, usable |-> TRUE, detail |-> TRUE]
Ok(releases) == [kind |-> "ok", releases |-> releases]
Raise == [kind |-> "raise"]
TrackTitles == {tA, tB, tC, tD}

\* What the databases hold, as far as the calls can see it: the answer to the
\* search by artist, to the search by each title, and Discogs' answer.
AlbumWorlds ==
    { [artist |-> Raise, track |-> [t \in TrackTitles |-> Raise], discogs |-> Raise],
      [artist |-> Ok(<<>>), track |-> [t \in TrackTitles |-> Ok(<<>>)], discogs |-> Ok(<<>>)],
      [artist |-> Ok(<<MbRelease("mb-1", Full), MbRelease("mb-2", One2)>>),
       track |-> [t \in TrackTitles |->
                     CASE t = tA -> Ok(<<MbRelease("mb-1", Full), MbRelease("mb-3", One6)>>)
                       [] t = tB -> Raise
                       [] t = tC -> Ok(<<MbRelease("mb-3", One6)>>)
                       [] OTHER -> Ok(<<>>)],
       discogs |-> Ok(<<DiscogsRelease("101", Full)>>)],
      [artist |-> Ok(<<MbRelease("mb-2", One2), MbRelease("mb-1", Full), MbRelease("mb-3", One6),
                       MbRelease("mb-4", Full), MbRelease("mb-5", One2), MbRelease("mb-6", One6),
                       MbRelease("mb-1", Full)>>),
       track |-> [t \in TrackTitles |-> Ok(<<>>)],
       discogs |-> Ok(<<DiscogsRelease("101", Full)>>)],
      [artist |-> Ok(<<MbRelease("mb-3", One6), MbRelease("mb-6", One6)>>),
       track |-> [t \in TrackTitles |-> Ok(<<>>)],
       discogs |-> Ok(<<DiscogsRelease("101", Full), DiscogsRelease("101", Full),
                        [id |-> "102", tracks |-> Full, usable |-> FALSE, detail |-> TRUE],
                        DiscogsRelease("103", <<>>)>>)],
      [artist |-> Ok(<<[id |-> "mb-7", tracks |-> Full, detail |-> FALSE],
                       [id |-> "mb-7", tracks |-> Full, detail |-> FALSE]>>),
       track |-> [t \in TrackTitles |->
                     IF t = tA THEN Ok(<<[id |-> "mb-7", tracks |-> Full, detail |-> FALSE]>>)
                     ELSE Ok(<<>>)],
       discogs |-> Raise],
      [artist |-> Ok(<<MbRelease("mb-1", Full)>>),
       track |-> [t \in TrackTitles |->
                     CASE t = tA -> Ok(<<MbRelease("mb-8", Full)>>)
                       [] t = tB -> Ok(<<MbRelease("mb-9", Full)>>)
                       [] t = tC -> Ok(<<MbRelease("mb-10", One6)>>)
                       [] OTHER -> Ok(<<MbRelease("mb-11", Full)>>)],
       discogs |-> Ok(<<DiscogsRelease("101", Full), DiscogsRelease("104", One2),
                        DiscogsRelease("105", None6)>>)] }

\* return [], 0.0
EmptyResult == [candidates |-> <<>>, max_confidence |-> Zero]

\* self.cache[cache_key] = result
Store(cache, key, result) ==
    {e \in cache : e.key # key} \cup {[key |-> key, result |-> result]}
Cached(cache, key) == \E e \in cache : e.key = key
Lookup(cache, key) == (CHOOSE e \in cache : e.key = key).result

InitAlbum ==
    /\ BatchIdle
    /\ SideIdle
    /\ SearchIdle
    /\ ScoreIdle
    /\ AudioIdle
    /\ lastfm = FALSE
    /\ pc = "album_idle"
    /\ al_world \in AlbumWorlds
    /\ al_disco \in BOOLEAN
    /\ al_cache = {}
    /\ al_hist = <<>>
    /\ al_in = <<>>
    /\ al_cands = <<>>
    /\ al_seen = {}
    /\ al_t = 1
    /\ al_log = <<>>
    /\ al_out = NoResult
    /\ al_call = 0
    \* last_discogs_request is 0 (line 58) and the clock is far beyond it
    /\ al_now = DiscogsDelay
    /\ al_last = 0
    /\ al_sleeping = <<>>

\* The calls begun so far while no call (during = FALSE) or some call (TRUE)
\* was suspended.
AlbumCallsMade(during) ==
    Cardinality({i \in 1..Len(al_hist) : al_hist[i].during = during})

\* lines 92-100: recognize_album is called; nothing to do for no files, and a
\* cached result is returned at once
AlbumStart ==
    /\ pc = "album_idle"
    /\ IF al_sleeping = <<>> THEN AlbumCallsMade(FALSE) < MaxAlbumCalls
       ELSE AlbumCallsMade(TRUE) < MaxOverlappingCalls
    /\ \E f \in AlbumFileLists :
          LET cache_key == GenerateCacheKey(f)
              hit == f # <<>> /\ Cached(al_cache, cache_key)
          IN /\ al_in' = f
             /\ al_hist' = Append(al_hist, [files_info |-> f, key |-> cache_key, hit |-> hit,
                                            during |-> al_sleeping # <<>>])
             /\ al_out' = IF f = <<>> THEN EmptyResult
                          ELSE IF hit THEN Lookup(al_cache, cache_key)
                          ELSE NoResult
             /\ pc' = IF f = <<>> \/ hit THEN "album_idle" ELSE "album_mb"
    /\ al_call' = Len(al_hist) + 1
    /\ al_cands' = <<>>
    /\ al_seen' = {}
    /\ al_t' = 1
    /\ al_log' = <<>>
    /\ UNCHANGED <<batch_vars, search_vars, side_vars, score_vars, audio_vars, lastfm, al_world, al_disco,
                   al_cache, al_now, al_last, al_sleeping>>

\* _search_musicbrainz, lines 140-176: the search by the main artist
ArtistSearch ==
    /\ pc = "album_mb"
    /\ LET artists == Field(al_in, "artist")
           titles == SearchTitles(al_in)
           asked == Append(al_log, <<"search_artist">>)
           acc == ProcessMbReleases(al_world.artist.releases,
                                    [seen |-> {}, cands |-> <<>>, log |-> asked], al_in)
       IN IF artists = <<>> \/ titles = <<>>
          THEN pc' = "album_discogs" /\ UNCHANGED <<al_cands, al_seen, al_log>>
          ELSE IF al_world.artist.kind = "raise"
          THEN pc' = "album_discogs" /\ al_log' = asked /\ UNCHANGED <<al_cands, al_seen>>
          ELSE /\ al_cands' = acc.cands
               /\ al_seen' = acc.seen
               /\ al_log' = acc.log
               /\ pc' = IF TrackSearchNeeded(acc.cands, titles) THEN "album_tracks"
                        ELSE "album_discogs"
    /\ UNCHANGED <<batch_vars, search_vars, side_vars, score_vars, audio_vars, lastfm, al_world, al_disco,
                   al_cache, al_hist, al_in, al_t, al_out, al_call, al_now, al_last, al_sleeping>>

\* _search_musicbrainz, lines 178-197: the search by one of the first three
\* titles; a failing search is skipped
TrackSearch ==
    /\ pc = "album_tracks"
    /\ LET titles == SearchTitles(al_in)
           title == titles[al_t]
           answer == al_world.track[title]
           asked == Append(al_log, <<"search_track", title>>)
           acc == ProcessMbReleases(answer.releases,
                                    [seen |-> al_seen, cands |-> al_cands, log |-> asked], al_in)
       IN /\ IF answer.kind = "raise"
             THEN al_log' = asked /\ UNCHANGED <<al_cands, al_seen>>
             ELSE /\ al_cands' = acc.cands
                  /\ al_seen' = acc.seen
                  /\ al_log' = acc.log
          /\ al_t' = al_t + 1
          /\ pc' = IF al_t >= 3 \/ al_t >= Len(titles) THEN "album_discogs" ELSE "album_tracks"
    /\ UNCHANGED <<batch_vars, search_vars, side_vars, score_vars, audio_vars, lastfm, al_world, al_disco,
                   al_cache, al_hist, al_in, al_out, al_call, al_now, al_last, al_sleeping>>

\* _search_discogs, lines 284-321, and line 118: what the candidate list and
\* the log of a call become, and whether Discogs is sent a request
SearchDiscogs(files_info, candidates, log) ==
    LET asked == Append(log, <<"search_discogs">>)
        acc == ProcessDiscogsReleases(al_world.discogs.releases,
                                      [cands |-> <<>>, log |-> asked, processed_count |-> 0],
                                      files_info)
    IN IF Field(files_info, "artist") = <<>>
       THEN [cands |-> candidates, log |-> log, requested |-> FALSE]
       ELSE IF al_world.discogs.kind = "raise"
       THEN [cands |-> candidates, log |-> asked, requested |-> TRUE]
       ELSE [cands |-> candidates \o acc.cands, log |-> acc.log, requested |-> TRUE]

\* lines 112-121 and _search_discogs: MusicBrainz found too little. Without a
\* client nothing is done; a call that comes less than discogs_delay after the
\* last Discogs request goes to sleep (line 282) and leaves the event loop to
\* other calls; otherwise Discogs is searched at once.
DiscogsFallback ==
    /\ pc = "album_discogs"
    /\ DiscogsNeeded(al_cands)
    /\ LET time_since_last == al_now - al_last
           found == SearchDiscogs(al_in, al_cands, al_log)
       IN IF ~al_disco
          THEN /\ pc' = "album_finish"
               /\ UNCHANGED <<al_cands, al_log, al_last, al_sleeping>>
          ELSE IF time_since_last < DiscogsDelay
          THEN /\ al_sleeping' = Append(al_sleeping,
                                        [call |-> al_call, files_info |-> al_in,
                                         candidates |-> al_cands, seen |-> al_seen,
                                         t |-> al_t, log |-> al_log,
                                         wake |-> al_now + (DiscogsDelay - time_since_last)])
               /\ pc' = "album_idle"
               /\ UNCHANGED <<al_cands, al_log, al_last>>
          ELSE /\ al_cands' = found.cands
               /\ al_log' = found.log
               /\ al_last' = IF found.requested THEN al_now ELSE al_last
               /\ pc' = "album_finish"
               /\ UNCHANGED al_sleeping
    /\ UNCHANGED <<batch_vars, search_vars, side_vars, score_vars, audio_vars, lastfm, al_world, al_disco,
                   al_cache, al_hist, al_in, al_seen, al_t, al_out, al_call, al_now>>

\* The sequence s without its element i.
Without(s, i) == SubSeq(s, 1, i - 1) \o SubSeq(s, i + 1, Len(s))

\* asyncio.sleep returns (line 282): the event loop is free and the time has
\* come; the call goes on with its own locals and searches Discogs.
DiscogsWake ==
    /\ pc = "album_idle"
    /\ \E i \in 1..Len(al_sleeping) :
          /\ al_now >= al_sleeping[i].wake
          /\ \A j \in 1..Len(al_sleeping) : al_sleeping[i].wake <= al_sleeping[j].wake
          /\ al_sleeping' = Without(al_sleeping, i)
          /\ al_call' = al_sleeping[i].call
          /\ al_in' = al_sleeping[i].files_info
          /\ al_seen' = al_sleeping[i].seen
          /\ al_t' = al_sleeping[i].t
          /\ LET found == SearchDiscogs(al_sleeping[i].files_info, al_sleeping[i].candidates,
                                      al_sleeping[i].log)
             IN /\ al_cands' = found.cands
                /\ al_log' = found.log
                /\ al_last' = IF found.requested THEN al_now ELSE al_last
    /\ al_out' = NoResult
    /\ pc' = "album_finish"
    /\ UNCHANGED <<batch_vars, search_vars, side_vars, score_vars, audio_vars, lastfm, al_world, al_disco,
                   al_cache, al_hist, al_now>>

\* Time passes while the event loop runs no call.
AlbumTimePasses ==
    /\ pc = "album_idle"
    /\ al_now < MaxAlbumTime
    /\ al_now' = al_now + 1
    /\ UNCHANGED <<batch_vars, search_vars, side_vars, score_vars, audio_vars, lastfm, al_world, al_disco,
                   pc, al_cache, al_hist, al_in, al_cands, al_seen, al_t, al_log, al_out,
                   al_call, al_last, al_sleeping>>

\* lines 122-123: MusicBrainz found enough
SkipDiscogs ==
    /\ pc = "album_discogs"
    /\ ~DiscogsNeeded(al_cands)
    /\ pc' = "album_finish"
    /\ UNCHANGED <<batch_vars, search_vars, side_vars, score_vars, audio_vars, lastfm, album_vars>>

\* lines 125-136: sort, keep five, store in the cache, return
AlbumFinish ==
    /\ pc = "album_finish"
    /\ LET candidates == TopFive(SortByConfidence(al_cands))
           result == [candidates |-> candidates, max_confidence |-> MaxConfidence(candidates)]
       IN /\ al_cache' = Store(al_cache, GenerateCacheKey(al_in), result)
          /\ al_out' = result
    /\ pc' = "album_idle"
    /\ UNCHANGED <<batch_vars, search_vars, side_vars, score_vars, audio_vars, lastfm, al_world, al_disco,
                   al_hist, al_in, al_cands, al_seen, al_t, al_log, al_call, al_now, al_last,
                   al_sleeping>>

NextAlbum ==
    \/ AlbumStart
    \/ ArtistSearch
    \/ TrackSearch
    \/ DiscogsFallback
    \/ DiscogsWake
    \/ SkipDiscogs
    \/ AlbumFinish
    \/ AlbumTimePasses

SpecAlbum == InitAlbum /\ [][NextAlbum]_vars

\* ------------------------------------- audio_recognition.py: recognize_audio
\* One AudioRecognitionService is shared by every request (app.py 36-46, the
\* endpoints at 274-286 and 340-360 run on a threaded server), so calls of
\* recognize_audio overlap: a call is a record in au_calls whose field at is
\* the step it has reached. A result leaves out the metadata dictionary,
\* which recognize_audio passes on untouched; an error message is the
\* sequence of its parts.

MaxAudioCalls == 2
MaxTouches == 1

sAcoustID == <<"A", "c", "o", "u", "s", "t", "I", "D">>
sShazam == <<"S", "h", "a", "z", "a", "m">>

AudioPaths == {"/music/a.mp3", "/music/b.mp3"}
Missing == [missing |-> TRUE]
FileStat(size, mtime) == [size |-> size, mtime |-> mtime]

\* _get_cache_key, lines 257-259: the md5 of path, size and modification
\* time, taken as the triple itself
GetCacheKey(file_path, file_stat) == <<file_path, file_stat.size, file_stat.mtime>>

\* What acoustid answers: fingerprint_file raises, finds no fingerprint, lookup
\* raises, or lookup returns matches <<[score, recordings]>>, a recording being
\* [title, artist] ("" where the recording has none).
AcoustidMatch(score, recordings) == [score |-> score, recordings |-> recordings]
AcoustidRecording(title, artist) == [title |-> title, artist |-> artist]
Matches(m) == [kind |-> "matches", matches |-> m]
AcoustidAnswers ==
    { [kind |-> "fingerprint_raise"],
      [kind |-> "no_fingerprint"],
      [kind |-> "lookup_raise"],
      Matches(<<>>),
      Matches(<<AcoustidMatch(Pct(60), <<AcoustidRecording(sSOS, sAbba)>>)>>),
      Matches(<<AcoustidMatch(Pct(90), <<AcoustidRecording(sSOS, <<>>)>>),
                AcoustidMatch(Pct(80), <<AcoustidRecording(sSpaceSos, sAbba)>>),
                AcoustidMatch(Pct(80), <<AcoustidRecording(sXyz, sXyz)>>)>>) }

\* What Shazam answers: recognize_song raises, returns no track, or a track
\* [title, subtitle, artists], artists being the aliases of the track's
\* artists (None for an artist without alias).
ShazamSong(title, subtitle, artists) ==
    [kind |-> "track", title |-> title, subtitle |-> subtitle, artists |-> artists]
ShazamAnswers ==
    { [kind |-> "raise"],
      [kind |-> "none"],
      ShazamSong(sSpaceSos, sAbba, <<>>),
      ShazamSong(<<>>, sAbba, <<sXyz>>),
      ShazamSong(sSpaceSos, sAbba, <<None>>) }

\* lines 42-50, 97-104 and 162-169: the result every step starts from
ResultTemplate ==
    [success |-> FALSE, source |-> None, title |-> None, artist |-> None,
     confidence |-> Zero, error |-> None]

\* _find_best_acoustid_match, lines 215-245: over the recordings of one match
RECURSIVE BestOfRecordings(_, _, _)
BestOfRecordings(recordings, score, best) ==
    IF recordings = <<>> THEN best
    ELSE LET title == Strip(Head(recordings).title)
             artist == Strip(Head(recordings).artist)
             best_score == IF Exists(best) THEN best.score ELSE Zero
         IN BestOfRecordings(Tail(recordings), score,
                IF title # <<>> /\ artist # <<>> /\ QGt(score, best_score)
                THEN [title |-> title, artist |-> artist, confidence |-> score, score |-> score]
                ELSE best)

\* _find_best_acoustid_match, lines 215-245: over the matches
RECURSIVE FindBestAcoustidMatch(_, _)
FindBestAcoustidMatch(matches, best) ==
    IF matches = <<>> THEN best
    ELSE FindBestAcoustidMatch(Tail(matches),
             IF QLt(Head(matches).score, Pct(70)) THEN best
             ELSE BestOfRecordings(Head(matches).recordings, Head(matches).score, best))

\* _recognize_with_acoustid, lines 87-150
RecognizeWithAcoustid(answer) ==
    IF answer.kind = "fingerprint_raise"
    THEN [ResultTemplate EXCEPT !.error = <<"AcoustID Fehler">>]
    ELSE IF answer.kind = "no_fingerprint"
    THEN [ResultTemplate EXCEPT !.error = <<"Konnte keinen Fingerprint generieren">>]
    ELSE IF answer.kind = "lookup_raise"
    THEN [ResultTemplate EXCEPT !.error = <<"AcoustID API Fehler">>]
    ELSE LET best_match == FindBestAcoustidMatch(answer.matches, NoResult)
         IN IF Exists(best_match)
            THEN [ResultTemplate EXCEPT !.success = TRUE,
                                        !.title = best_match.title,
                                        !.artist = best_match.artist,
                                        !.confidence = best_match.confidence]
            ELSE [ResultTemplate EXCEPT
                      !.error = <<"Keine ausreichenden Uebereinstimmungen gefunden">>]

\* _recognize_with_shazam, lines 152-203
RecognizeWithShazam(answer) ==
    IF answer.kind = "raise"
    THEN [ResultTemplate EXCEPT !.error = <<"Shazam Fehler">>]
    ELSE IF answer.kind = "none"
    THEN [ResultTemplate EXCEPT !.error = <<"Keine Uebereinstimmung bei Shazam gefunden">>]
    ELSE LET artist == Strip(answer.subtitle)
         IN [ResultTemplate EXCEPT
                !.success = TRUE,
                !.title = Strip(answer.title),
                !.artist = IF answer.artists # <<>> /\ answer.artists[1] # None
                           THEN answer.artists[1] ELSE artist,
                !.confidence = Pct(80)]

\* line 75: the error of a call both services failed on
BothFailed(acoustid_result, shazam_result) ==
    [ResultTemplate EXCEPT
        !.error = <<"Beide Services fehlgeschlagen">> \o acoustid_result.error
                                                          \o shazam_result.error]

InitAudio ==
    /\ BatchIdle
    /\ SideIdle
    /\ SearchIdle
    /\ ScoreIdle
    /\ AlbumIdle
    /\ lastfm = FALSE
    /\ pc = "audio"
    /\ au_stat = [p \in AudioPaths |->
                      IF p = "/music/a.mp3" THEN FileStat(1, 1) ELSE Missing]
    /\ au_cache = {}
    /\ au_calls = <<>>

\* lines 42-55: recognize_audio is called; os.stat raises for a missing file,
\* and a cached result is returned at once
AudioStart ==
    /\ Len(au_calls) < MaxAudioCalls
    /\ \E file_path \in AudioPaths :
          LET file_stat == au_stat[file_path]
              cache_key == GetCacheKey(file_path, file_stat)
              call == [file_path |-> file_path, key |-> None, at |-> "raised", hit |-> FALSE,
                       consulted |-> <<>>, acoustid_result |-> NoResult,
                       result |-> NoResult]
          IN au_calls' = Append(au_calls,
                 IF file_stat = Missing THEN call
                 ELSE IF Cached(au_cache, cache_key)
                 THEN [call EXCEPT !.key = cache_key, !.at = "returned", !.hit = TRUE,
                                   !.result = Lookup(au_cache, cache_key)]
                 ELSE [call EXCEPT !.key = cache_key, !.at = "acoustid"])
    /\ UNCHANGED <<batch_vars, search_vars, side_vars, score_vars, album_vars, lastfm, pc, au_stat,
                   au_cache>>

\* lines 57-68: the progress line is printed and AcoustID is tried first.
\* raising: which print of the step raises (0: none); the first is line 59,
\* the second line 65 or 68. A print that raises leads to the except.
AudioAcoustid ==
    /\ \E i \in 1..Len(au_calls), answer \in AcoustidAnswers, raising \in 0..2 :
          LET acoustid_result == RecognizeWithAcoustid(answer)
              call == [au_calls[i] EXCEPT !.consulted = Append(@, "AcoustID")]
          IN /\ au_calls[i].at = "acoustid"
             /\ au_calls' = [au_calls EXCEPT ![i] =
                    IF raising = 1
                    THEN [au_calls[i] EXCEPT !.result = ResultTemplate, !.at = "except"]
                    ELSE IF acoustid_result.success
                    THEN [call EXCEPT !.result = [acoustid_result EXCEPT !.source = sAcoustID],
                                      !.at = IF raising = 2 THEN "except" ELSE "store"]
                    ELSE IF raising = 2
                    THEN [call EXCEPT !.result = ResultTemplate, !.at = "except"]
                    ELSE [call EXCEPT !.acoustid_result = acoustid_result, !.at = "shazam"]]
    /\ UNCHANGED <<batch_vars, search_vars, side_vars, score_vars, album_vars, lastfm, pc, au_stat,
                   au_cache>>

\* lines 69-76: Shazam is the fallback. raising: the print of the step (line
\* 74 or 76) raises.
AudioShazam ==
    /\ \E i \in 1..Len(au_calls), answer \in ShazamAnswers, raising \in 0..1 :
          LET shazam_result == RecognizeWithShazam(answer)
              call == [au_calls[i] EXCEPT !.consulted = Append(@, "Shazam"),
                                          !.at = IF raising = 1 THEN "except" ELSE "store"]
          IN /\ au_calls[i].at = "shazam"
             /\ au_calls' = [au_calls EXCEPT ![i] =
                    IF shazam_result.success
                    THEN [call EXCEPT !.result = [shazam_result EXCEPT !.source = sShazam]]
                    ELSE [call EXCEPT !.result =
                              BothFailed(au_calls[i].acoustid_result, shazam_result)]]
    /\ UNCHANGED <<batch_vars, search_vars, side_vars, score_vars, album_vars, lastfm, pc, au_stat,
                   au_cache>>

\* lines 78-81: the except notes the error in the result the call has at that
\* point and prints it. raising: this print raises too, and the exception
\* leaves recognize_audio before anything is stored.
AudioExcept ==
    /\ \E i \in 1..Len(au_calls), raising \in 0..1 :
          /\ au_calls[i].at = "except"
          /\ au_calls' = [au_calls EXCEPT ![i] =
                 IF raising = 1
                 THEN [@ EXCEPT !.result = NoResult, !.at = "raised"]
                 ELSE [@ EXCEPT !.result.error = <<"Unerwarteter Fehler">>, !.at = "store"]]
    /\ UNCHANGED <<batch_vars, search_vars, side_vars, score_vars, album_vars, lastfm, pc, au_stat,
                   au_cache>>

\* lines 83-85: the result is stored under the key and returned
AudioStore ==
    /\ \E i \in 1..Len(au_calls) :
          /\ au_calls[i].at = "store"
          /\ au_cache' = Store(au_cache, au_calls[i].key, au_calls[i].result)
          /\ au_calls' = [au_calls EXCEPT ![i].at = "returned"]
    /\ UNCHANGED <<batch_vars, search_vars, side_vars, score_vars, album_vars, lastfm, pc, au_stat>>

\* The file of a path is written anew: its modification time changes.
AudioFileModified ==
    /\ \E file_path \in AudioPaths :
          /\ au_stat[file_path] # Missing
          /\ au_stat[file_path].mtime <= MaxTouches
          /\ au_stat' = [au_stat EXCEPT ![file_path].mtime = @ + 1]
    /\ UNCHANGED <<batch_vars, search_vars, side_vars, score_vars, album_vars, lastfm, pc, au_cache,
                   au_calls>>

NextAudio ==
    \/ AudioStart
    \/ AudioAcoustid
    \/ AudioShazam
    \/ AudioExcept
    \/ AudioStore
    \/ AudioFileModified

SpecAudio == InitAudio /\ [][NextAudio]_vars

\* ------------------------------- online_metadata.py: _respect_rate_limit
\* Time is counted in fifths of a second, from the first call on. A provider
\* call passes _respect_rate_limit once and then sends its requests. The
\* provider has no lock: its methods can be called from several threads, and
\* a thread that sleeps in _respect_rate_limit (line 71) or waits for the
\* answer to a request lets the others run and the time pass.

MaxProviderCalls == 3
\* the requests the calls of a run send together
MaxRequests == 3
MaxThreads == 2
MaxTime == 6

\* lines 32-36
RateLimits == [musicbrainz |-> 5, lastfm |-> 1, discogs |-> 5]
\* A thread in _respect_rate_limit reaches line 73 when its wait is over, or
\* up to this much later (time.sleep returns late, or the thread is kept
\* from running)
MaxOversleep == 1

\* _search_musicbrainz, lines 163-250: the requests it sends, by what the
\* search is about and what MusicBrainz answers. An answer is
\* [album, found, found_again, releases, cover_at, release_group,
\* artist_credit]: the search names an album, the first and the second search
\* find a recording, the number of its releases, the release that has cover
\* art (0: none), whether the first release names a release group and the
\* recording an artist.
MusicbrainzRequests(a) ==
    LET again == IF ~a.found /\ a.album THEN <<"search_recordings">> ELSE <<>>
        hit == a.found \/ (a.album /\ a.found_again)
        looked == IF a.releases < 3 THEN a.releases ELSE 3
        images == IF a.cover_at = 0 \/ a.cover_at > looked THEN looked ELSE a.cover_at
    IN <<"search_recordings">> \o again
       \o (IF ~hit THEN <<>>
           ELSE (IF a.releases = 0 THEN <<>>
                 ELSE [i \in 1..images |-> "get_image_list"] \o <<"get_release_by_id">>
                      \o (IF a.release_group THEN <<"get_release_group_by_id">> ELSE <<>>))
                \o (IF a.artist_credit THEN <<"get_artist_by_id">> ELSE <<>>))
MusicbrainzAnswers ==
    { [album |-> FALSE, found |-> FALSE, found_again |-> FALSE, releases |-> 0, cover_at |-> 0,
       release_group |-> FALSE, artist_credit |-> FALSE],
      [album |-> TRUE, found |-> FALSE, found_again |-> TRUE, releases |-> 0, cover_at |-> 0,
       release_group |-> FALSE, artist_credit |-> TRUE],
      [album |-> TRUE, found |-> TRUE, found_again |-> FALSE, releases |-> 1, cover_at |-> 1,
       release_group |-> FALSE, artist_credit |-> FALSE] }

\* _search_lastfm, lines 312-348: get_track sends nothing; the tags, the album
\* and its cover are one request each. An answer is [album]: the track has an
\* album.
LastfmRequests(a) ==
    <<"get_top_tags", "get_album">> \o (IF a.album THEN <<"get_cover_image">> ELSE <<>>)
LastfmAnswers == {[album |-> FALSE], [album |-> TRUE]}

\* The provider calls: the service each passes to _respect_rate_limit and the
\* requests it then sends. get_similar_artists (lines 908-933) sends one
\* request, and so do get_detailed_genre_analysis (lines 766-829, its request
\* track.getInfo) and get_mood_and_era_analysis (lines 831-906,
\* artist.getInfo). Nothing calls _search_discogs (line 379).
ProviderCalls ==
    {[service |-> "musicbrainz", requests |-> MusicbrainzRequests(a)] : a \in MusicbrainzAnswers}
    \cup {[service |-> "lastfm", requests |-> LastfmRequests(a)] : a \in LastfmAnswers}
    \cup {[service |-> "lastfm", requests |-> <<"artist.getSimilar">>]}

\* _respect_rate_limit, lines 66-71: the time it sleeps
WaitTime(last_request, service, now) ==
    IF service \in DOMAIN last_request
    THEN LET elapsed == now - last_request[service]
             required_wait == RateLimits[service]
         IN IF elapsed < required_wait THEN required_wait - elapsed ELSE 0
    ELSE 0

Threads == 1..MaxThreads
NoCall == [at |-> "idle"]
\* The provider calls begun so far.
ProviderCallsMade ==
    Cardinality({i \in 1..Len(rl_log) : rl_log[i].request = "call"})
    + Cardinality({t \in Threads : rl_threads[t].at = "waiting"})
RECURSIVE SumOf(_, _)
SumOf(f, S) == IF S = {} THEN 0 ELSE LET x == CHOOSE x \in S : TRUE IN f[x] + SumOf(f, S \ {x})
\* The requests that the provider calls begun so far send.
RequestsToSend ==
    SumOf([i \in 1..Len(rl_log) |-> rl_log[i].sends],
          {i \in 1..Len(rl_log) : rl_log[i].request = "call"})
    + SumOf([t \in Threads |-> Len(rl_threads[t].todo)],
            {t \in Threads : rl_threads[t].at = "waiting"})
\* The calls the runs are made of: at most MaxProviderCalls, which send at
\* most MaxRequests requests together.
CanBegin(call) ==
    /\ ProviderCallsMade < MaxProviderCalls
    /\ RequestsToSend + Len(call.requests) <= MaxRequests
\* The latest time at which a thread in _respect_rate_limit goes on to line 73.
Deadline(t) == rl_threads[t].wake + MaxOversleep
\* Time can advance by d without a thread missing the end of its sleep.
CanPass(d) ==
    /\ rl_now + d <= MaxTime
    /\ \A t \in Threads : rl_threads[t].at = "waiting" => rl_now + d <= Deadline(t)

InitRate ==
    /\ BatchIdle
    /\ SearchIdle
    /\ ScoreIdle
    /\ AlbumIdle
    /\ AudioIdle
    /\ PathIdle
    /\ HookIdle
    /\ lastfm = TRUE
    /\ pc = "rate"
    /\ rl_now = 0
    /\ rl_last = [service \in {} |-> 0]
    /\ rl_log = <<>>
    /\ rl_threads = [t \in Threads |-> NoCall]

\* A provider call begins on a thread: _respect_rate_limit reads last_request
\* and the clock and, if the service was asked too recently, goes to sleep
\* (lines 64-71).
RespectRateLimit ==
    /\ pc = "rate"
    /\ \E t \in Threads, call \in ProviderCalls :
          /\ rl_threads[t].at = "idle"
          /\ \A u \in Threads : u < t => rl_threads[u].at # "idle"
          /\ LET wait_time == WaitTime(rl_last, call.service, rl_now)
             IN /\ CanBegin(call)
                /\ rl_threads' = [rl_threads EXCEPT ![t] =
                                     [at |-> "waiting", service |-> call.service,
                                      todo |-> call.requests, after |-> Len(rl_log),
                                      wake |-> rl_now + wait_time, slept |-> wait_time > 0]]
    /\ UNCHANGED <<batch_vars, search_vars, score_vars, album_vars, audio_vars, path_vars,
                   hook_vars, lastfm, pc, rl_now, rl_last, rl_log>>

\* The sleep over, the thread notes the time of its passage (line 73).
NoteLastRequest ==
    /\ pc = "rate"
    /\ \E t \in Threads :
          /\ rl_threads[t].at = "waiting"
          /\ rl_now >= rl_threads[t].wake
          /\ rl_last' = Update(rl_last, [s \in {rl_threads[t].service} |-> rl_now])
          /\ rl_log' = Append(rl_log, [service |-> rl_threads[t].service, request |-> "call",
                                       at |-> rl_now, after |-> rl_threads[t].after,
                                       slept |-> rl_threads[t].slept,
                                       sends |-> Len(rl_threads[t].todo)])
          /\ rl_threads' = [rl_threads EXCEPT ![t].at = "sending"]
    /\ UNCHANGED <<batch_vars, search_vars, score_vars, album_vars, audio_vars, path_vars,
                   hook_vars, lastfm, pc, rl_now>>

\* A call sends a request (lines 171-250, 334-345, 793, 857, 933): its first
\* one after _respect_rate_limit, a later one when the answer to the one
\* before has arrived. Sending is one step and waiting for the answer none:
\* the thread holds no lock, and until its next step time passes and the
\* other threads run.
SendRequest ==
    /\ pc = "rate"
    /\ \E t \in Threads :
          /\ rl_threads[t].at = "sending"
          /\ rl_threads[t].todo # <<>>
          /\ rl_log' = Append(rl_log, [service |-> rl_threads[t].service,
                                       request |-> Head(rl_threads[t].todo), at |-> rl_now])
          /\ rl_threads' = [rl_threads EXCEPT ![t].todo = Tail(@)]
    /\ UNCHANGED <<batch_vars, search_vars, score_vars, album_vars, audio_vars, path_vars,
                   hook_vars, lastfm, pc, rl_now, rl_last>>

\* The answer to a call's last request has arrived: the call returns.
ProviderReturn ==
    /\ pc = "rate"
    /\ \E t \in Threads :
          /\ rl_threads[t].at = "sending"
          /\ rl_threads[t].todo = <<>>
          /\ rl_threads' = [rl_threads EXCEPT ![t] = NoCall]
    /\ UNCHANGED <<batch_vars, search_vars, score_vars, album_vars, audio_vars, path_vars,
                   hook_vars, lastfm, pc, rl_now, rl_last, rl_log>>

\* Time passes, once the first call has begun: whatever the threads are at,
\* but not beyond the end of a sleep (CanPass).
TimePasses ==
    /\ pc = "rate"
    /\ rl_log # <<>> \/ \E t \in Threads : rl_threads[t].at # "idle"
    /\ CanPass(1)
    /\ rl_now' = rl_now + 1
    /\ UNCHANGED <<batch_vars, search_vars, score_vars, album_vars, audio_vars, path_vars,
                   hook_vars, lastfm, pc, rl_last, rl_log, rl_threads>>

NextRate ==
    \/ RespectRateLimit
    \/ NoteLastRequest
    \/ SendRequest
    \/ ProviderReturn
    \/ TimePasses

SpecRate == InitRate /\ [][NextRate]_vars

\* ------------------------------------------ analyze_path_structure on paths

PathDirs == {<<>>,
             <<"M", "u", "s", "i", "c">>,
             <<"A", "B", "B", "A">>,
             <<"A", "B", "B", "A", " ", "-", " ", "A", "r", "r", "i", "v", "a", "l">>,
             <<"A", "r", "r", "i", "v", "a", "l", " ", "(", "1", "9", "7", "6", ")">>,
             <<"x">>}
PathTops == {<<"M", "u", "s", "i", "c">>,
             <<"A", "B", "B", "A">>}
PathFiles == {<<"A", "C", "-", "D", "C", " ", "-", " ", "B", "a", "c", "k", " ", "I", "n", " ", "B", "l", "a", "c", "k", ".", "m", "p", "3">>,
              <<"A", "l", "p", "h", "a", "-", "B", "e", "t", "a", " ", "-", " ", "T", "i", "t", "l", "e", ".", "m", "p", "3">>,
              <<"0", "1", " ", "-", " ", "U", "n", "k", "n", "o", "w", "n", " ", "-", " ", "T", "i", "t", "l", "e", ".", "m", "p", "3">>,
              <<"A", "b", "b", "a", " ", "-", " ", "S", "O", "S", ".", "m", "p", "3">>,
              <<"s", "o", "n", "g", ".", "m", "p", "3">>,
              <<"A", "b", "b", "a", "_", "S", "O", "S", ".", "m", "p", "3">>,
              <<"T", "r", "a", "c", "k", "0", "1", " ", "A", "b", "b", "a", " ", "S", "O", "S", ".", "m", "p", "3">>,
              <<"x", " ", "-", " ", "y", ".", "m", "p", "3">>,
              <<"0", "1", " ", "A", "b", "b", "a", " ", "-", " ", "S", "O", "S", ".", "M", "P", "3">>,
              <<"A", "1", " ", "-", " ", "B", "2", " ", "-", " ", "C", "3", ".", "m", "p", "3">>,
              <<"T", "r", "a", "c", "k", "0", "1", ".", "m", "p", "3">>,
              <<"t", "r", "a", "c", "k", "7", ".", "m", "p", "3">>,
              <<"T", "r", "a", "c", "k", "0", "1", "_", "x", ".", "m", "p", "3">>}
PathOthers == {<<"M", "u", "s", "i", "c", "\\", "A", "B", "B", "A", " ", "-", " ", "A", "r", "r", "i", "v", "a", "l", "\\", "s", "o", "n", "g", ".", "m", "p", "3">>,
               <<"A", "B", "B", "A", "\\", "A", "r", "r", "i", "v", "a", "l", " ", "(", "1", "9", "7", "6", ")", "/", "A", "b", "b", "a", " ", "-", " ", "S", "O", "S", ".", "m", "p", "3">>}

Slash == <<"/">>
\* The paths analysed: a file name under up to three directories, and two
\* paths written with backslashes.
PathInputs ==
    PathFiles
    \cup {d \o Slash \o f : d \in PathDirs, f \in PathFiles}
    \cup {d \o Slash \o e \o Slash \o f : d \in PathDirs, e \in PathDirs, f \in PathFiles}
    \cup {t \o Slash \o d \o Slash \o e \o Slash \o f :
             t \in PathTops, d \in PathDirs, e \in PathDirs, f \in PathFiles}
    \cup PathOthers

\* Path(file_path).name of a path that does not end with a slash
PathName(file_path) ==
    LET parts == SplitAll(file_path, <<"/">>) IN parts[Len(parts)]

\* line 74: file_path.replace('\\', '/')
NormalizedPath(file_path) ==
    [i \in 1..Len(file_path) |-> IF file_path[i] = "\\" THEN "/" ELSE file_path[i]]

\* analyze_path_structure, lines 60-104, from the path
AnalyzePath(file_path) ==
    AnalyzePathStructure([dir |-> AnalyzeDirectoryStructure(NormalizedPath(file_path)),
                          fn |-> AnalyzeFilename(PathName(file_path))])

\* The (artist, title) pairs put to the nonsense filter
NonsenseNames == {<<"x">>,
                  <<"y">>,
                  <<"a", "b">>,
                  <<"A", "b", "b", "a">>,
                  <<"S", "O", "S">>,
                  <<"U", "n", "k", "n", "o", "w", "n">>,
                  <<"T", "i", "t", "l", "e">>,
                  <<" ", "N", "o", " ">>,
                  <<"1", "2", "3", "4", "5">>,
                  <<"a", "b", "b", "a">>,
                  <<"T", "r", "a", "c", "k">>,
                  <<"N", "u", "m", "b", "e", "r">>}
NonsensePairs == NonsenseNames \X NonsenseNames

InitPath ==
    /\ BatchIdle
    /\ SearchIdle
    /\ ScoreIdle
    /\ AlbumIdle
    /\ AudioIdle
    /\ RateIdle
    /\ HookIdle
    /\ lastfm = TRUE
    /\ pc = "path"
    /\ pa_in = None
    /\ pa_out = NoResult

\* One call of analyze_path_structure (lines 60-104); the two partial
\* analyses are kept beside the result.
AnalyzePathCall ==
    /\ pc = "path"
    /\ \E file_path \in PathInputs :
          /\ pa_in' = file_path
          /\ pa_out' = [call |-> "analyze_path_structure",
                        directory_info |-> AnalyzeDirectoryStructure(NormalizedPath(file_path)),
                        filename_info |-> AnalyzeFilename(PathName(file_path)),
                        result |-> AnalyzePath(file_path)]
    /\ pc' = "path_done"
    /\ UNCHANGED <<batch_vars, search_vars, score_vars, album_vars, audio_vars, rate_vars,
                   hook_vars, lastfm>>

\* One call of _looks_like_nonsense (lines 265-297)
LooksLikeNonsenseCall ==
    /\ pc = "path"
    /\ \E pair \in NonsensePairs :
          /\ pa_in' = pair[1] \o Slash \o pair[2]
          /\ pa_out' = [call |-> "_looks_like_nonsense",
                        artist |-> pair[1], title |-> pair[2],
                        nonsense |-> LooksLikeNonsense(pair[1], pair[2])]
    /\ pc' = "path_done"
    /\ UNCHANGED <<batch_vars, search_vars, score_vars, album_vars, audio_vars, rate_vars,
                   hook_vars, lastfm>>

\* The caller has the value; the analyzer keeps nothing of the call.
PathReturn ==
    /\ pc = "path_done"
    /\ pc' = "path"
    /\ pa_in' = None
    /\ pa_out' = NoResult
    /\ UNCHANGED <<batch_vars, search_vars, score_vars, album_vars, audio_vars, rate_vars,
                   hook_vars, lastfm>>

NextPath == AnalyzePathCall \/ LooksLikeNonsenseCall \/ PathReturn
SpecPath == InitPath /\ [][NextPath]_vars

\* ------------------------------- audio_recognition.py: AudioRecognitionBatch
\* process_files is a coroutine: its code between two awaits is one step, and
\* while it is suspended in `await recognize_audio` (line 322) other code of
\* the program runs, which can call set_progress_callback. Every pass of the
\* loop, and the code after the loop, reads self.progress_callback anew.

MaxBatchFiles == 2
\* the calls of set_progress_callback in a run
MaxCallbackSets == 2

BatchPaths == {<<"/", "m", "u", "s", "i", "c", "/", "a", ".", "m", "p", "3">>,
               <<"b", ".", "m", "p", "3">>}
tAbgeschlossen == <<"A", "b", "g", "e", "s", "c", "h", "l", "o", "s", "s", "e", "n">>
\* file_paths: up to MaxBatchFiles paths, repetitions included
BatchInputs == UNION {[1..n -> BatchPaths] : n \in 0..MaxBatchFiles}
\* the functions a caller sets as callback
Callbacks == {<<"on_progress">>, <<"on_update">>}
\* what an invocation of the callback does
HookBehaviours == {"returns", "raises"}
\* what recognize_audio does for a file
RecognitionOutcomes == {"success", "failure", "raised"}

\* os.path.basename(file_path)
Basename(file_path) == PathName(file_path)

\* lines 327-333
BatchError ==
    [success |-> FALSE, error |-> <<"Batch-Verarbeitungsfehler">>, title |-> None,
     artist |-> None, source |-> None]
\* the value of recognize_audio, by its kind: a song AcoustID knows, or one
\* that neither service recognizes
RecognitionResult(outcome) ==
    IF outcome = "success"
    THEN [RecognizeWithAcoustid(Matches(<<AcoustidMatch(Pct(90),
                                            <<AcoustidRecording(sSOS, sAbba)>>)>>))
              EXCEPT !.source = sAcoustID]
    ELSE BothFailed(RecognizeWithAcoustid([kind |-> "no_fingerprint"]),
                    RecognizeWithShazam([kind |-> "none"]))

BatchEvent(event, callback, index, processed, total, name, does) ==
    [event |-> event, callback |-> callback, index |-> index, processed |-> processed,
     total |-> total, name |-> name, does |-> does]
HookEvent(callback, index, processed, total, name, does) ==
    BatchEvent("hook", callback, index, processed, total, name, does)
RecognizeEvent(index, processed, total, file_path) ==
    BatchEvent("recognize_audio", None, index, processed, total, file_path, "called")
SetEvent(callback) ==
    BatchEvent("set_progress_callback", callback, 0, 0, 0, <<>>, "set")
\* the number of calls of set_progress_callback so far
CallbackSets(log) ==
    Cardinality({k \in 1..Len(log) : log[k].event = "set_progress_callback"})

InitProcess ==
    /\ BatchIdle
    /\ SearchIdle
    /\ ScoreIdle
    /\ AlbumIdle
    /\ AudioIdle
    /\ RateIdle
    /\ PathIdle
    /\ lastfm = TRUE
    /\ pc = "bt_idle"
    /\ bt_in = <<>>
    /\ bt_callback = None
    /\ bt_processed = 0
    /\ bt_results = {}
    /\ bt_log = <<>>

\* set_progress_callback (lines 300-302), called before process_files or
\* while process_files is suspended in its await.
SetProgressCallback ==
    /\ pc \in {"bt_idle", "bt_await"}
    /\ CallbackSets(bt_log) < MaxCallbackSets
    /\ \E callback \in Callbacks \cup {None} :
          /\ bt_callback' = callback
          /\ bt_log' = Append(bt_log, SetEvent(callback))
    /\ UNCHANGED <<batch_vars, search_vars, score_vars, album_vars, audio_vars, rate_vars,
                   path_vars, lastfm, pc, bt_in, bt_processed, bt_results>>

\* process_files is called (lines 314-315).
ProcessFiles ==
    /\ pc = "bt_idle"
    /\ \E file_paths \in BatchInputs : bt_in' = file_paths
    /\ bt_processed' = 0
    /\ pc' = "bt_loop"
    /\ UNCHANGED <<batch_vars, search_vars, score_vars, album_vars, audio_vars, rate_vars,
                   path_vars, lastfm, bt_callback, bt_results, bt_log>>

\* A pass of the loop as far as the await (lines 317-322): the callback that
\* is set now is invoked, inside the try, and recognize_audio is called; a
\* callback that raises ends the pass in the except (lines 325-334).
ProcessFile ==
    /\ pc = "bt_loop"
    /\ bt_processed < Len(bt_in)
    /\ LET index == bt_processed + 1
           file_path == bt_in[index]
           total_files == Len(bt_in)
           recognize == RecognizeEvent(index, bt_processed, total_files, file_path)
       IN IF ~Truthy(bt_callback)
          THEN /\ bt_log' = Append(bt_log, recognize)
               /\ pc' = "bt_await"
               /\ UNCHANGED <<bt_results, bt_processed>>
          ELSE \E does \in HookBehaviours :
                  LET hooked == Append(bt_log, HookEvent(bt_callback, index, bt_processed,
                                                         total_files, Basename(file_path),
                                                         does))
                  IN IF does = "raises"
                     THEN /\ bt_log' = hooked
                          /\ bt_results' = Store(bt_results, file_path, BatchError)
                          /\ bt_processed' = bt_processed + 1
                          /\ pc' = "bt_loop"
                     ELSE /\ bt_log' = Append(hooked, recognize)
                          /\ pc' = "bt_await"
                          /\ UNCHANGED <<bt_results, bt_processed>>
    /\ UNCHANGED <<batch_vars, search_vars, score_vars, album_vars, audio_vars, rate_vars,
                   path_vars, lastfm, bt_in, bt_callback>>

\* recognize_audio returns or raises and the pass ends (lines 322-334): the
\* result, or the batch error, is stored under the path.
RecognizeAudioReturns ==
    /\ pc = "bt_await"
    /\ \E outcome \in RecognitionOutcomes :
          bt_results' = Store(bt_results, bt_in[bt_processed + 1],
                              IF outcome = "raised" THEN BatchError
                              ELSE RecognitionResult(outcome))
    /\ bt_processed' = bt_processed + 1
    /\ pc' = "bt_loop"
    /\ UNCHANGED <<batch_vars, search_vars, score_vars, album_vars, audio_vars, rate_vars,
                   path_vars, lastfm, bt_in, bt_callback, bt_log>>

\* After the loop (lines 336-339): the callback that is set now is invoked
\* once more, outside the try, and process_files returns.
ProcessReturn ==
    /\ pc = "bt_loop"
    /\ bt_processed = Len(bt_in)
    /\ IF ~Truthy(bt_callback)
       THEN pc' = "bt_returned" /\ UNCHANGED bt_log
       ELSE \E does \in HookBehaviours :
               /\ bt_log' = Append(bt_log, HookEvent(bt_callback, 0, bt_processed,
                                                     Len(bt_in), tAbgeschlossen, does))
               /\ pc' = IF does = "raises" THEN "bt_raised" ELSE "bt_returned"
    /\ UNCHANGED <<batch_vars, search_vars, score_vars, album_vars, audio_vars, rate_vars,
                   path_vars, lastfm, bt_in, bt_callback, bt_processed, bt_results>>

NextProcess ==
    \/ SetProgressCallback
    \/ ProcessFiles
    \/ ProcessFile
    \/ RecognizeAudioReturns
    \/ ProcessReturn
SpecProcess == InitProcess /\ [][NextProcess]_vars

\* ------------------------------------------ the two caching services together
\* One service instance is under observation: the audio recognition service
\* or the album recognition service.
InitCache == InitAudio \/ InitAlbum
AudioStep == pc = "audio" /\ NextAudio
AlbumStep == pc # "audio" /\ NextAlbum
NextCache == AudioStep \/ AlbumStep
SpecCache == InitCache /\ [][NextCache]_vars


\* ================================================================ properties
\* The file being processed has no artist tag or no title tag.
Untagged == Exists(file_data) /\ ~HasBasicInfo(file_data)

\* The stage was invoked for the file being processed.
Ran(stage) == \E i \in 1..Len(calls) : calls[i] = stage

\* What path analysis yields for the file being processed.
PathConfidence == AnalyzePathStructure(file_data.path_info).confidence

\* The name of the file being processed holds one of the placeholder words.
PlaceholderName ==
    \E w \in {<<"o", "h", "n", "e", "_", "i", "d", "3">>, <<"n", "o", "n", "a", "m", "e">>,
              <<"t", "r", "a", "c", "k">>, <<"u", "n", "k", "n", "o", "w", "n">>,
              <<"u", "n", "t", "i", "t", "l", "e", "d">>} :
        Contains(Lower(file_data.filename), w)

\* C1 as stated: for a file without basic tags whose path analysis yields a
\* confidence of at least 0.6, the fingerprinting stage is never invoked.
C1_AsStated ==
    (Untagged /\ QGe(PathConfidence, Pct(60))) => ~Ran("fingerprint")

\* C1: for a file without basic tags whose name holds none of the
\* placeholder words and whose path analysis yields a confidence of at least
\* 0.6, the fingerprinting stage is never invoked.
C1_ShortCircuit ==
    (Untagged /\ ~PlaceholderName /\ QGe(PathConfidence, Pct(60))) => ~Ran("fingerprint")

\* A file whose path analysis yields exactly 0.6 has gone through the chain
\* without fingerprinting.
C1_Witness ==
    /\ pc = "accept"
    /\ Untagged /\ ~PlaceholderName
    /\ PathConfidence = Pct(60)
    /\ Ran("path") /\ Ran("audio") /\ ~Ran("fingerprint")

\* The fallback stages other than path analysis.
LaterStages == {"enhanced", "audio", "fingerprint"}

\* C2 as stated: for every file without basic tags, no other fallback stage
\* is invoked before path analysis has run.
C2_AsStated ==
    Untagged => \A i \in 1..Len(calls) :
                    calls[i] \in LaterStages => \E j \in 1..(i - 1) : calls[j] = "path"

\* C2: for every file without basic tags whose name holds none of the
\* placeholder words, path analysis is the first stage invoked; a file whose
\* name holds a placeholder word is fingerprinted first, and path analysis,
\* the enhanced file name stage and the audio properties stage never run
\* for it.
C2_PathFirst ==
    Untagged =>
        IF PlaceholderName
        THEN /\ calls # <<>> => calls[1] = "fingerprint"
             /\ ~Ran("path") /\ ~Ran("enhanced") /\ ~Ran("audio")
        ELSE calls # <<>> => calls[1] = "path"

\* A file with a telling name reached fingerprinting after path analysis.
C2_Witness ==
    /\ Untagged /\ ~PlaceholderName
    /\ Len(calls) >= 4
    /\ calls[1] = "path"
    /\ calls[4] = "fingerprint"

\* C3 as stated: the enhanced file name stage runs for a file only if path
\* analysis produced confidence 0.0.
C3_AsStated ==
    (Untagged /\ Ran("enhanced")) => PathConfidence = Zero

\* C3: the enhanced file name stage runs for every file without basic tags
\* that enters the chain (its name holds no placeholder word), as the second
\* stage right after path analysis, whatever confidence path analysis
\* produced; it runs for no other file.
C3_EnhancedAlways ==
    /\ (Untagged /\ ~PlaceholderName /\ pc \in {"audio", "fingerprint", "select", "accept"})
           => (Len(calls) >= 2 /\ calls[1] = "path" /\ calls[2] = "enhanced")
    /\ Ran("enhanced") => (Untagged /\ ~PlaceholderName)

\* The enhanced file name stage has run although path analysis produced 0.8.
C3_Witness ==
    /\ pc = "audio"
    /\ Untagged
    /\ PathConfidence = Pct(80)
    /\ calls = <<"path", "enhanced">>

\* The record appended last, and the confidence of the result it was built from.
LastRecord == results[Len(results)]
FinalConfidence == IF Exists(online_meta) THEN GetOr(online_meta, "confidence", Zero) ELSE Zero
Populated(r) ==
    \/ Truthy(r.suggested_artist)
    \/ Truthy(r.suggested_title)
    \/ Truthy(r.suggested_album)
    \/ Truthy(r.suggested_genre)
    \/ r.suggested_cover_url # None

\* C4 as stated: when a file's record is appended, its suggested fields are
\* populated (at least one is non-empty) if and only if the final result's
\* confidence is strictly greater than 0.3.
C4_AsStated ==
    (pc = "loop" /\ results # <<>>) =>
        (Populated(LastRecord) <=> QGt(FinalConfidence, Pct(30)))

\* C5: for a file without basic tags with a best fallback candidate of
\* confidence c, the provider search is run again iff c > 0.6 (and echoes
\* the candidate's artist, title and album when it finds nothing); its
\* result replaces the candidate, tagged with the candidate's method, iff
\* its confidence is above 0.5; otherwise artist, title, album and
\* confidence of the result are those of the candidate.
C5_FallbackUpgrade ==
    (pc = "accept" /\ Untagged /\ suggestions # <<>>) =>
        LET best == suggestions[1]
            again == QGt(best.confidence, Pct(60))
            upgraded == /\ Exists(fallback_online_meta)
                        /\ QGt(fallback_online_meta.confidence, Pct(50))
        IN /\ Ran("search") <=> again
           /\ Exists(fallback_online_meta) <=> again
           /\ (Exists(fallback_online_meta) /\ fallback_online_meta.confidence = Zero)
                  => /\ fallback_online_meta.artist = Get(best, "artist")
                     /\ fallback_online_meta.title = Get(best, "title")
                     /\ fallback_online_meta.album = Get(best, "album")
           /\ IF upgraded
              THEN /\ online_meta.artist = fallback_online_meta.artist
                   /\ online_meta.title = fallback_online_meta.title
                   /\ online_meta.album = fallback_online_meta.album
                   /\ online_meta.confidence = fallback_online_meta.confidence
                   /\ online_meta.fallback_method = best.method
              ELSE /\ online_meta.artist = Get(best, "artist")
                   /\ online_meta.title = Get(best, "title")
                   /\ online_meta.album = Get(best, "album")
                   /\ online_meta.confidence = best.confidence

\* A path candidate of 0.8 was searched again and replaced by a provider
\* result of confidence 1.0 that carries the candidate's method.
C5_Witness ==
    /\ pc = "accept"
    /\ Untagged
    /\ suggestions # <<>>
    /\ suggestions[1].confidence = Pct(80)
    /\ Exists(fallback_online_meta)
    /\ fallback_online_meta.confidence = One
    /\ online_meta.album = sArrival
    /\ online_meta.fallback_method = "path_analysis"

\* Last.fm names a track in the exchange of the call under way.
LastfmNamesTrack ==
    /\ s_in.lf.kind = "ok"
    /\ s_in.lf.has_artist
    /\ Truthy(s_in.lf.artist)
    /\ Truthy(s_in.lf.title)

\* C6: when the MusicBrainz lookup raises, search_metadata still queries
\* Last.fm (when a client is configured) and returns, and its result then
\* carries the artist, title, tags and cover Last.fm answered.
C6_FailureIsolation ==
    (pc = "search_done" /\ s_in.mb.kind = "raise" /\ lastfm /\ LastfmNamesTrack
        /\ Truthy(SearchInfo.artist) /\ Truthy(SearchInfo.title)) =>
        /\ ~Exists(mb_result)
        /\ Exists(lastfm_result)
        /\ s_out.artist = s_in.lf.artist
        /\ s_out.title = s_in.lf.title
        /\ s_out.additional_genres = s_in.lf.tags
        /\ s_out.cover_url = s_in.lf.cover
        /\ s_out.confidence = lastfm_result.confidence

\* The call returned Last.fm's track although MusicBrainz raised.
C6_Witness ==
    /\ pc = "search_done"
    /\ s_in.mb.kind = "raise"
    /\ lastfm
    /\ s_in.query.artist = sAbba
    /\ s_out.artist = sAbba
    /\ s_out.additional_genres = <<sDisco, sPop>>
    /\ s_out.confidence = One

\* The fields a record is given on input.
InputFields(r) ==
    <<r.directory, r.filename, r.current_artist, r.current_title, r.current_album, r.path_info>>

\* C7: whatever stages and providers fail or raise, the result list holds
\* exactly one record for each input file handled so far, in input order,
\* and at the return one record for each input file.
C7_OneResultPerInput ==
    /\ Len(results) = idx - 1
    /\ Len(results) <= Len(files)
    /\ \A i \in 1..Len(results) : InputFields(results[i]) = InputFields(files[i])
    /\ pc = "done" => Len(results) = Len(files)

\* Two files were returned, the first of them after the loop body raised.
C7_Witness ==
    /\ pc = "done"
    /\ Len(files) = 2
    /\ Len(results) = 2
    /\ files[1].filename # files[2].filename
    /\ Exists(results[1].online_metadata)
    /\ results[1].online_metadata.source = "None"
    /\ "fallback_method" \in DOMAIN results[1].online_metadata

\* C8 as stated: for artist Queen, title Bohemian Rhapsody, no album, with
\* only MusicBrainz returning a result and that an exact match, the search
\* result has confidence 1.0, source MusicBrainz and MusicBrainz's album.
C8_AsStated ==
    (/\ pc = "search_done"
     /\ s_in.query.artist = sQueen
     /\ s_in.query.title = sBohemianRhapsody
     /\ s_in.query.album = None
     /\ Exists(mb_result)
     /\ mb_result.artist = sQueen
     /\ mb_result.title = sBohemianRhapsody
     /\ ~Exists(lastfm_result)) =>
        /\ s_out.confidence = One
        /\ s_out.source = "MusicBrainz"
        /\ s_out.album = sNightAtTheOpera

\* Both providers returned a result in the call under way.
BothResults == pc = "search_done" /\ Exists(mb_result) /\ Exists(lastfm_result)

\* C9: with both results, the combined confidence is the larger of the two,
\* the source names both providers, primary first, exactly when both
\* confidences exceed 0.5, otherwise the primary alone; MusicBrainz is
\* primary unless Last.fm's confidence is strictly higher.
C9_ConfidenceAndSource ==
    BothResults =>
        LET m == mb_result.confidence
            l == lastfm_result.confidence
            half == Pct(50)
        IN /\ s_out.confidence = IF QGt(l, m) THEN l ELSE m
           /\ s_out.source =
                  IF QGt(m, half) /\ QGt(l, half)
                  THEN IF QGt(l, m) THEN "Last.fm + MusicBrainz" ELSE "MusicBrainz + Last.fm"
                  ELSE IF QGt(l, m) THEN "Last.fm" ELSE "MusicBrainz"

\* MusicBrainz at exactly 0.5 and Last.fm at 1.0: the source is Last.fm alone.
C9_Witness ==
    /\ BothResults
    /\ mb_result.confidence = Pct(50)
    /\ lastfm_result.confidence = One
    /\ s_out.source = "Last.fm"
    /\ s_out.confidence = One

\* The core fields of line 720 whose values are texts or None; the year, a
\* number, is the sixth.
CoreText == {"artist", "title", "album", "track_number", "total_tracks"}
PrimaryResult ==
    IF QGt(lastfm_result.confidence, mb_result.confidence) THEN lastfm_result ELSE mb_result

\* C10 as stated: with both results, each core field (artist, title, album,
\* year, track numbers) of the combined result is MusicBrainz's when
\* MusicBrainz's confidence is above 0.5 and the primary result's otherwise.
C10_AsStated ==
    BothResults =>
        /\ \A f \in CoreText :
               s_out[f] = IF QGt(mb_result.confidence, Pct(50))
                          THEN Get(mb_result, f) ELSE Get(PrimaryResult, f)
        /\ s_out.year = IF QGt(mb_result.confidence, Pct(50))
                        THEN mb_result.year ELSE GetOr(PrimaryResult, "year", 0)

\* C10: with both results, each core field (artist, title, album, year,
\* track numbers) of the combined result is MusicBrainz's when MusicBrainz's
\* confidence is above 0.5 and MusicBrainz has a value for the field; a field
\* MusicBrainz lacks, and every core field when its confidence is at most
\* 0.5, is the primary result's.
C10_CoreFields ==
    BothResults =>
        /\ \A f \in CoreText :
               s_out[f] = IF QGt(mb_result.confidence, Pct(50)) /\ Truthy(Get(mb_result, f))
                          THEN Get(mb_result, f) ELSE Get(PrimaryResult, f)
        /\ s_out.year = IF QGt(mb_result.confidence, Pct(50)) /\ mb_result.year # 0
                        THEN mb_result.year ELSE GetOr(PrimaryResult, "year", 0)

\* MusicBrainz above 0.5 without an artist, Last.fm primary: the artist is
\* Last.fm's and the title MusicBrainz's.
C10_Witness ==
    /\ BothResults
    /\ QGt(mb_result.confidence, Pct(50))
    /\ mb_result.artist = None
    /\ lastfm_result.artist = sAbba
    /\ s_out.artist = sAbba
    /\ s_out.title = sSosx

\* The first three entries of a genre list.
Top3(g) == SubSeq(g, 1, IF Len(g) < 3 THEN Len(g) ELSE 3)

\* C11: with both results, the combined genre list is Last.fm's top three
\* tags followed, in order, by those of MusicBrainz's top three tags that
\* equal, letter case aside, neither a Last.fm top tag nor an earlier
\* MusicBrainz tag; it has at most six entries, and the primary genre is its
\* first entry when it has one.
C11_GenreMerge ==
    BothResults =>
        LET lf3 == Top3(lastfm_result.additional_genres)
            mb3 == Top3(mb_result.additional_genres)
            fresh == {i \in 1..Len(mb3) :
                         /\ \A k \in 1..Len(lf3) : Lower(lf3[k]) # Lower(mb3[i])
                         /\ \A j \in 1..(i - 1) : Lower(mb3[j]) # Lower(mb3[i])}
            nth(n) == CHOOSE i \in fresh : Cardinality({j \in fresh : j <= i}) = n
            g == s_out.additional_genres
        IN /\ Len(g) = Len(lf3) + Cardinality(fresh)
           /\ Len(g) <= 6
           /\ \A k \in 1..Len(lf3) : g[k] = lf3[k]
           /\ \A n \in 1..Cardinality(fresh) : g[Len(lf3) + n] = mb3[nth(n)]
           /\ g # <<>> => s_out.genre = g[1]

\* Both providers answered; Last.fm's fourth tag and the MusicBrainz tags
\* "Pop" and "pop", already among Last.fm's, were left out.
C11_Witness ==
    /\ BothResults
    /\ lastfm_result.additional_genres = <<sDisco, sPop, sSoul, sFunk>>
    /\ mb_result.additional_genres = <<sPopCap, sRock, sPop, sJazz>>
    /\ s_out.additional_genres = <<sDisco, sPop, sSoul, sRock>>
    /\ s_out.genre = sDisco

\* The arguments of the _calculate_confidence call, field by field.
Sought == <<sc_in.search_info.artist, sc_in.search_info.title, sc_in.search_info.album>>
Comparable(i) == Truthy(Sought[i]) /\ Truthy(sc_in.found[i])

\* C12: both confidence functions return a value between 0.0 and 1.0, and
\* _calculate_confidence of online_metadata.py returns 0.0 when no field is
\* non-empty on both sides.
C12_ConfidenceBound ==
    pc = "score_done" =>
        /\ QGe(sc_out, Zero)
        /\ QGe(One, sc_out)
        /\ (sc_in.kind = "match" /\ \A i \in 1..3 : ~Comparable(i)) => sc_out = Zero

\* An album score whose sum before the clamp is 1.8: one file, its title
\* equal to the only track's.
C12_Witness ==
    /\ pc = "score_done"
    /\ sc_in.kind = "album"
    /\ sc_in.files_info = <<TitledFile(sSpaceSos)>>
    /\ sc_in.album_tracks = <<sSOS>>
    /\ sc_out = One

\* Two texts are the same letter for letter when upper and lower case are
\* not told apart.
Fold(c) == IF c \in DOMAIN UpperToLower THEN UpperToLower[c] ELSE c
SameLetters(a, b) == Len(a) = Len(b) /\ \A i \in 1..Len(a) : Fold(a[i]) = Fold(b[i])

\* C13: when artist, title and album are non-empty on both sides and each
\* found field is the sought one, letter case aside, the confidence is 1.0.
C13_ExactMatch ==
    (/\ pc = "score_done"
     /\ sc_in.kind = "match"
     /\ \A i \in 1..3 : Comparable(i) /\ SameLetters(Sought[i], sc_in.found[i]))
        => sc_out = One

\* All three fields sought in lower case and found in upper case.
C13_Witness ==
    /\ pc = "score_done"
    /\ sc_in.kind = "match"
    /\ \A i \in 1..3 : Sought[i] = <<"a", "b">> /\ sc_in.found[i] = <<"A", "B">>
    /\ sc_out = One

\* The score the formula of the album confidence gives: exact matches count
\* 1.0 and fuzzy matches 0.7 over the titled files, plus 0.1 when the track
\* count is within two of their number, at most 1.0.
FormulaScore ==
    LET ft == FileTitles(sc_in.files_info)
        at == [j \in 1..Len(sc_in.album_tracks) |-> Strip(Lower(sc_in.album_tracks[j]))]
        n == Len(ft)
        atSet == {at[j] : j \in 1..Len(at)}
        shared(a, b) == Cardinality({i \in 1..Len(a) : \E j \in 1..Len(b) : b[j] = a[i]})
        overlap(a, b) == IF Len(a) > Len(b) THEN 5 * shared(b, a) >= 4 * Len(a)
                         ELSE 5 * shared(a, b) >= 4 * Len(b)
        isFuzzy(t) == \E a \in atSet :
                          /\ t # <<>> /\ a # <<>>
                          /\ (Contains(a, t) \/ Contains(t, a) \/ overlap(t, a))
        exact == Cardinality({i \in 1..n : ft[i] \in atSet})
        fuzzy == Cardinality({i \in 1..n : isFuzzy(ft[i])})
        near == Len(at) - n \in -2..2
        sum == QAdd(QDivInt(QAdd(QMulInt(exact, One), QMulInt(fuzzy, Pct(70))), n),
                    IF near THEN Pct(10) ELSE Zero)
    IN IF QGt(sum, One) THEN One ELSE sum

TitledFiles == Len(FileTitles(sc_in.files_info))

\* C14 as stated: for every list of files with at least one title and every
\* track list, the album confidence equals the formula.
C14_AsStated ==
    (pc = "score_done" /\ sc_in.kind = "album" /\ TitledFiles > 0) => sc_out = FormulaScore

\* C14: the album confidence equals the formula when at least one file has
\* a title and the release has at least one track, and is 0.0 otherwise.
C14_AlbumScore ==
    (pc = "score_done" /\ sc_in.kind = "album") =>
        sc_out = IF TitledFiles = 0 \/ sc_in.album_tracks = <<>> THEN Zero ELSE FormulaScore

\* Ten files matching ten of twelve tracks exactly score 1.0.
C14_Witness ==
    /\ pc = "score_done"
    /\ sc_in.kind = "album"
    /\ TitledFiles = 10
    /\ Len(sc_in.album_tracks) = 12
    /\ sc_out = One

\* The call that is running, or ran last.
LastCall == al_hist[al_call]
\* A recognize_album call has returned and none is running.
AlbumReturned == pc = "album_idle" /\ al_hist # <<>> /\ Exists(al_out)
\* That call went to the providers: it had files and found nothing cached.
Computed == al_in # <<>> /\ ~LastCall.hit
Requested(request) == \E i \in 1..Len(al_log) : al_log[i][1] = request
Positions(request) == {i \in 1..Len(al_log) : al_log[i][1] = request}

\* C15 as stated: no returned candidate list holds two candidates with the
\* same external release identifier.
C15_AsStated ==
    AlbumReturned =>
        \A i, j \in 1..Len(al_out.candidates) :
            al_out.candidates[i].external_id = al_out.candidates[j].external_id => i = j

\* C16: a returned candidate list has at most five entries in descending
\* order of confidence, max_confidence is its first entry's confidence or 0.0
\* when it is empty, it is empty for no files, and when the call went to the
\* providers it holds five of the candidates found, or all of them, none
\* left out scoring higher than one kept.
C16_TopFiveSorted ==
    AlbumReturned =>
        LET out == al_out.candidates
            n == Len(out)
        IN /\ n <= 5
           /\ \A i \in 1..(n - 1) : QGe(out[i].confidence, out[i + 1].confidence)
           /\ al_out.max_confidence = IF n = 0 THEN Zero ELSE out[1].confidence
           /\ al_in = <<>> => n = 0
           /\ Computed =>
                 /\ n = IF Len(al_cands) < 5 THEN Len(al_cands) ELSE 5
                 /\ \A i \in 1..n : \E k \in 1..Len(al_cands) : al_cands[k] = out[i]
                 /\ \A k \in 1..Len(al_cands) :
                        \/ \E i \in 1..n : out[i] = al_cands[k]
                        \/ \A i \in 1..n : QGe(out[i].confidence, al_cands[k].confidence)

\* Six candidates were found, not in order of confidence, and five returned.
C16_Witness ==
    /\ AlbumReturned
    /\ Computed
    /\ Len(al_cands) = 6
    /\ QLt(al_cands[1].confidence, al_cands[2].confidence)
    /\ Len(al_out.candidates) = 5
    /\ al_out.max_confidence = One

\* The candidates MusicBrainz contributed to the call under way.
MbCandidates == SelectSeq(al_cands, LAMBDA c : c.source = "musicbrainz")
\* MusicBrainz yielded fewer than two candidates, or none scoring 0.6.
PrimaryShort ==
    \/ Len(MbCandidates) < 2
    \/ \A i \in 1..Len(MbCandidates) : QLt(MbCandidates[i].confidence, Pct(60))
SomeArtist == \E i \in 1..Len(al_in) : Truthy(al_in[i].artist)

\* C17 as stated: in a call that went to the providers, Discogs is queried
\* if and only if MusicBrainz yielded fewer than two candidates or its best
\* confidence is below 0.6.
C17_AsStated ==
    pc = "album_finish" => (Requested("search_discogs") <=> PrimaryShort)

\* C17: in a call that went to the providers, Discogs is queried if and only
\* if MusicBrainz yielded fewer than two candidates or its best confidence is
\* below 0.6, a Discogs client is configured and some file has an artist.
C17_DiscogsFallback ==
    pc = "album_finish" =>
        (Requested("search_discogs") <=> (PrimaryShort /\ al_disco /\ SomeArtist))

\* Discogs was queried although MusicBrainz had yielded two candidates: both
\* score below 0.6.
C17_Witness ==
    /\ pc = "album_finish"
    /\ Requested("search_discogs")
    /\ Len(MbCandidates) = 2
    /\ Len(al_cands) > 2

\* The candidates the search by artist yields for the call under way.
ArtistCandidates ==
    IF al_world.artist.kind = "raise" THEN <<>>
    ELSE ProcessMbReleases(al_world.artist.releases,
                           [seen |-> {}, cands |-> <<>>, log |-> <<>>], al_in).cands
\* The MusicBrainz part of the call under way is over.
MusicbrainzDone == pc \in {"album_discogs", "album_finish"}

\* C18 as stated: searches by title are made only when at least three titles
\* are available, and none before the Discogs fallback.
C18_AsStated ==
    Requested("search_track") =>
        /\ Len(SearchTitles(al_in)) >= 3
        /\ \A i \in Positions("search_track") : \E j \in Positions("search_discogs") : j < i

\* C18: searches by title are made exactly when the search by artist was
\* answered and left fewer than three candidates; they go through the first
\* three titles (or fewer, when fewer files have one) in order, all before
\* Discogs is asked, and no release identifier is evaluated twice by
\* MusicBrainz.
C18_TrackRetry ==
    MusicbrainzDone =>
        LET titles == SearchTitles(al_in)
            retry == /\ Requested("search_artist")
                     /\ al_world.artist.kind = "ok"
                     /\ Len(ArtistCandidates) < 3
            searched == SelectSeq(al_log, LAMBDA e : e[1] = "search_track")
            before == IF Requested("search_discogs")
                      THEN SubSeq(al_log, 1, (CHOOSE i \in Positions("search_discogs") : TRUE) - 1)
                      ELSE al_log
        IN /\ Len(searched) = IF ~retry THEN 0
                              ELSE IF Len(titles) < 3 THEN Len(titles) ELSE 3
           /\ \A k \in 1..Len(searched) : searched[k] = <<"search_track", titles[k]>>
           /\ \A i \in Positions("search_track") : \A j \in Positions("search_discogs") : i < j
           /\ \A i, j \in 1..Len(before) :
                  (before[i][1] = "evaluate" /\ before[i] = before[j]) => i = j

\* One file with a title: the search by artist left two candidates, the
\* search by that title returned a release seen before and a new one.
C18_Witness ==
    /\ pc = "album_discogs"
    /\ Len(SearchTitles(al_in)) = 1
    /\ al_log = <<<<"search_artist">>, <<"evaluate", "mb-1">>, <<"evaluate", "mb-2">>,
                  <<"search_track", tA>>, <<"evaluate", "mb-3">>>>

\* The set of (title, artist) pairs of the files of a call.
PairSet(files_info) ==
    {<<files_info[i].title, files_info[i].artist>> : i \in 1..Len(files_info)}

\* C19 as stated: two calls get the same cache key exactly when their files
\* have the same set of (title, artist) pairs.
C19_AsStated ==
    \A i, j \in 1..Len(al_hist) :
        (al_hist[i].files_info # <<>> /\ al_hist[j].files_info # <<>>) =>
            (al_hist[i].key = al_hist[j].key
                 <=> PairSet(al_hist[i].files_info) = PairSet(al_hist[j].files_info))


\* ------------------------------------------------------------ C20
\* C20 as stated: no step removes or replaces an entry of the recognition
\* cache, and a call that starts when a result is stored under its key
\* returns that result without consulting AcoustID or Shazam.
C20_AsStated ==
    [][/\ \A e \in au_cache : e \in au_cache'
       /\ Len(au_calls') > Len(au_calls) =>
             LET call == au_calls'[Len(au_calls')]
             IN (call.key # None /\ Cached(au_cache, call.key)) =>
                    /\ call.at = "returned"
                    /\ call.result = Lookup(au_cache, call.key)
                    /\ call.consulted = <<>>]_vars

\* ------------------------------------------------------------ C21
\* The requests sent to the providers, in order.
Outbound == SelectSeq(rl_log, LAMBDA e : e.request # "call")
\* The passages through _respect_rate_limit, in order.
Passages == SelectSeq(rl_log, LAMBDA e : e.request = "call")
\* Entries i < j of a log are successive entries of one service.
Successive(log, i, j) ==
    /\ i < j
    /\ log[i].service = log[j].service
    /\ \A k \in (i + 1)..(j - 1) : log[k].service # log[i].service

\* C21 as stated: two successive requests sent to one provider are at least
\* that provider's minimum delay apart.
C21_AsStated ==
    \A i, j \in 1..Len(Outbound) :
        Successive(Outbound, i, j) =>
            Outbound[j].at - Outbound[i].at >= RateLimits[Outbound[i].service]

\* Two successive passages through _respect_rate_limit for one service are at
\* least that service's minimum delay apart. Two threads that are inside
\* _respect_rate_limit together both read last_request before either writes
\* it, and pass together: SpecRate violates this.
PassagesApart ==
    \A i, j \in 1..Len(Passages) :
        Successive(Passages, i, j) =>
            Passages[j].at - Passages[i].at >= RateLimits[Passages[i].service]

\* What _respect_rate_limit does ensure: a passage of a call that began when
\* an earlier passage for the service was noted is at least the delay after it.
SerialPassagesApart ==
    \A i, j \in 1..Len(rl_log) :
        /\ i < j
        /\ rl_log[i].request = "call" /\ rl_log[j].request = "call"
        /\ rl_log[i].service = rl_log[j].service
        /\ rl_log[j].after >= i
        => rl_log[j].at - rl_log[i].at >= RateLimits[rl_log[i].service]

\* Two threads have slept in _respect_rate_limit from one reading of
\* last_request and passed at the same time.
SleptTogether ==
    \E i, j \in 1..Len(rl_log) :
        /\ i < j
        /\ rl_log[i].request = "call" /\ rl_log[j].request = "call"
        /\ rl_log[i].service = rl_log[j].service
        /\ rl_log[j].after < i
        /\ rl_log[i].slept /\ rl_log[j].slept
        /\ rl_log[i].at = rl_log[j].at

\* ------------------------------------------------ path analysis (SpecPath)

PathAnalysed == Exists(pa_out) /\ pa_out.call = "analyze_path_structure"
NonsenseAsked == Exists(pa_out) /\ pa_out.call = "_looks_like_nonsense"
\* the components of the analysed path, and the directory the file lies in
PathParts == SplitAll(NormalizedPath(pa_in), Slash)
ParentDir == PathParts[Len(PathParts) - 1]

\* C22, as the claim states it: whenever the parent directory of the analysed
\* file has the form "artist - album", the directory analysis returns the two
\* sides of that split as artist and album with confidence 0.8, whatever the
\* directories above it are called.
C22_AsStated ==
    PathAnalysed /\ Len(PathParts) >= 2 /\ Contains(ParentDir, Dash) =>
        /\ pa_out.directory_info.artist = CleanName(SplitOnce(ParentDir, Dash)[1])
        /\ pa_out.directory_info.album = CleanName(SplitOnce(ParentDir, Dash)[2])
        /\ pa_out.directory_info.confidence = Pct(80)

\* What the code does for such a directory: the split is used only when the
\* component above it is empty; under a directory with a name the analysis
\* returns nothing.
C22_DashRuleReach ==
    PathAnalysed /\ Len(PathParts) >= 3 /\ Contains(ParentDir, Dash) =>
        IF PathParts[Len(PathParts) - 2] = <<>>
        THEN pa_out.directory_info.confidence = Pct(80)
        ELSE pa_out.directory_info.confidence = Zero

fAcdc == <<"A", "C", "-", "D", "C", " ", "-", " ", "B", "a", "c", "k", " ", "I", "n", " ", "B", "l", "a", "c", "k", ".", "m", "p", "3">>
fUnknownTitle == <<"0", "1", " ", "-", " ", "U", "n", "k", "n", "o", "w", "n", " ", "-", " ", "T", "i", "t", "l", "e", ".", "m", "p", "3">>
tAcdc == <<"A", "C", "-", "D", "C">>
tBackInBlack == <<"B", "a", "c", "k", " ", "I", "n", " ", "B", "l", "a", "c", "k">>
tUnknown == <<"U", "n", "k", "n", "o", "w", "n">>
tTitle == <<"T", "i", "t", "l", "e">>

\* The artist found in the file name ends where a hyphen without blanks around
\* it stands in the name.
SplitInsideBand ==
    LET filename == PathName(pa_in)
        artist == pa_out.filename_info.artist
    IN /\ Truthy(artist)
       /\ Len(artist) + 2 <= Len(filename)
       /\ SubSeq(filename, 1, Len(artist)) = artist
       /\ filename[Len(artist) + 1] = "-"
       /\ filename[Len(artist) + 2] # " "

\* C23, as the claim states it: the analysis of "AC-DC - Back In Black.mp3"
\* yields artist "AC-DC" and title "Back In Black", and no file name
\* "X-Y - Title.mp3" is split at the hyphen inside the band name.
C23_AsStated ==
    PathAnalysed =>
        /\ pa_in = fAcdc => /\ pa_out.result.artist = tAcdc
                            /\ pa_out.result.title = tBackInBlack
        /\ ~SplitInsideBand

\* C24, as the claim states it: the nonsense filter rejects every pair with a
\* field of at most 2 characters and lets the pair ("Unknown", "Title") pass.
C24_AsStated ==
    NonsenseAsked =>
        /\ Len(pa_out.artist) <= 2 \/ Len(pa_out.title) <= 2 => pa_out.nonsense
        /\ pa_out.artist = tUnknown /\ pa_out.title = tTitle => ~pa_out.nonsense

\* C24, amended: the nonsense filter rejects every pair with a field of at most
\* 2 characters and also the pair ("Unknown", "Title"), whatever the case of
\* its letters, and the file name "01 - Unknown - Title.mp3" yields no artist
\* and no title.
C24_Nonsense ==
    /\ NonsenseAsked =>
        /\ Len(pa_out.artist) <= 2 \/ Len(pa_out.title) <= 2 => pa_out.nonsense
        /\ Lower(pa_out.artist) = Lower(tUnknown) /\ Lower(pa_out.title) = Lower(tTitle)
               => pa_out.nonsense
    /\ PathAnalysed /\ PathName(pa_in) = fUnknownTitle =>
        /\ pa_out.filename_info.artist = None
        /\ pa_out.filename_info.title = None
        /\ pa_out.filename_info.confidence = Zero
    /\ PathAnalysed /\ pa_in = fUnknownTitle =>
        /\ pa_out.result.artist = None
        /\ pa_out.result.title = None
        /\ pa_out.result.confidence = Zero

\* The filter was asked about ("Unknown", "Title") and turned the pair down.
C24_Witness ==
    /\ NonsenseAsked
    /\ pa_out.artist = tUnknown /\ pa_out.title = tTitle
    /\ pa_out.nonsense

\* the value the merge of lines 79-93 leaves for a field
Merged(field) ==
    IF Truthy(pa_out.directory_info[field]) THEN pa_out.directory_info[field]
    ELSE IF Truthy(pa_out.filename_info[field]) THEN pa_out.filename_info[field]
    ELSE pa_out.directory_info[field]

\* C25, as the claim states it: the confidence of the result is the larger of
\* the two rules' confidences, artist and title are the directory rule's when
\* it set them and the filename rule's otherwise, the album is the directory
\* rule's.
C25_AsStated ==
    PathAnalysed =>
        /\ pa_out.result.confidence
               = QMax(pa_out.directory_info.confidence, pa_out.filename_info.confidence)
        /\ pa_out.result.artist = Merged("artist")
        /\ pa_out.result.title = Merged("title")
        /\ pa_out.result.album = pa_out.directory_info.album

\* C25, amended: the confidence is the larger of the two; artist, title and
\* album are the merged values after one more cleaning, in which a value of
\* at most one character becomes None.
C25_Merge ==
    PathAnalysed =>
        /\ pa_out.result.confidence
               = QMax(pa_out.directory_info.confidence, pa_out.filename_info.confidence)
        /\ pa_out.result.artist = CleanExtracted(Merged("artist"))
        /\ pa_out.result.title = CleanExtracted(Merged("title"))
        /\ pa_out.result.album = CleanExtracted(pa_out.directory_info.album)

\* Both rules found an artist, the directory rule's is a single character,
\* and the result has none.
C25_Witness ==
    /\ PathAnalysed
    /\ Truthy(pa_out.directory_info.artist) /\ Len(pa_out.directory_info.artist) = 1
    /\ Truthy(pa_out.filename_info.artist)
    /\ QGt(pa_out.filename_info.confidence, pa_out.directory_info.confidence)
    /\ pa_out.result.artist = None
    /\ pa_out.result.confidence = pa_out.filename_info.confidence

\* ------------------------------------------ batch processing (SpecProcess)

\* the positions of the log that hold an event of the kind for file index
EventsOf(kind, index) ==
    {k \in 1..Len(bt_log) : bt_log[k].event = kind /\ bt_log[k].index = index}

\* A callback was set before the batch began and has stayed since.
CallbackKept ==
    /\ Truthy(bt_callback)
    /\ \A k \in 1..Len(bt_log) :
           bt_log[k].event = "set_progress_callback" =>
               \A j \in 1..k : bt_log[j].event = "set_progress_callback"

\* C26, as the claim states it: of a batch with a callback, every file handled
\* so far was recognized and has a result of the recognition, and once the
\* batch has returned the callback was invoked exactly once for each file,
\* after the file's recognition, with the file's index, the total and the
\* file's name.
C26_AsStated ==
    pc \in {"bt_loop", "bt_await", "bt_returned", "bt_raised"} /\ CallbackKept =>
        \A index \in 1..bt_processed :
            /\ EventsOf("recognize_audio", index) # {}
            /\ Cached(bt_results, bt_in[index])
            /\ pc = "bt_returned" =>
                 /\ Cardinality(EventsOf("hook", index)) = 1
                 /\ \A h \in EventsOf("hook", index) :
                        /\ \E r \in EventsOf("recognize_audio", index) : r < h
                        /\ bt_log[h].total = Len(bt_in)
                        /\ bt_log[h].name = Basename(bt_in[index])

\* What the code does for a batch with a callback: the callback is invoked
\* once before each file's recognition with the number of files handled
\* before it, and once more after the last file; every file handled has a
\* result, and a file was recognized exactly when its invocation of the
\* callback did not raise.
C26_HookFirst ==
    pc \in {"bt_loop", "bt_await", "bt_returned", "bt_raised"} /\ CallbackKept =>
        /\ \A index \in 1..bt_processed :
            /\ Cardinality(EventsOf("hook", index)) = 1
            /\ Cached(bt_results, bt_in[index])
            /\ \A h \in EventsOf("hook", index) :
                   /\ bt_log[h].processed = index - 1
                   /\ bt_log[h].total = Len(bt_in)
                   /\ bt_log[h].name = Basename(bt_in[index])
                   /\ \A r \in EventsOf("recognize_audio", index) : h < r
                   /\ EventsOf("recognize_audio", index) # {} <=> bt_log[h].does = "returns"
        /\ pc \in {"bt_returned", "bt_raised"} =>
              /\ bt_log[Len(bt_log)].name = tAbgeschlossen
              /\ bt_log[Len(bt_log)].processed = Len(bt_in)

\* ------------------------------------------------- the cover lookup (Spec)

Tagged == Exists(file_data) /\ HasBasicInfo(file_data)
BaseFields == {"confidence", "artist", "title", "album", "source"}
BackfilledFields == {"cover_url", "spotify_url", "youtube_url", "cover_service"}

\* C27: the cover lookup of a tagged file leaves confidence, artist, title,
\* album and source of the provider result as they were, and every other
\* field too except the cover, the two streaming links and the cover service,
\* whether the fingerprinting finds a cover, finds none or raises.
C27_Frame ==
    [][pc = "cover_lookup" =>
          /\ \A k \in BaseFields :
                 k \in DOMAIN online_meta /\ k \in DOMAIN online_meta'
                     /\ online_meta'[k] = online_meta[k]
          /\ \A k \in (DOMAIN online_meta) \ BackfilledFields :
                 k \in DOMAIN online_meta' /\ online_meta'[k] = online_meta[k]
          /\ DOMAIN online_meta' \subseteq (DOMAIN online_meta) \cup BackfilledFields]_vars

\* A tagged file whose search found a result without a cover, and whose
\* cover, Spotify link and cover service then came from the fingerprinting.
C27_Witness ==
    /\ Tagged
    /\ pc = "accept"
    /\ calls = <<"search", "fingerprint">>
    /\ QGt(online_meta.confidence, Zero)
    /\ online_meta.cover_url = ShazamTrack.cover
    /\ "spotify_url" \in DOMAIN online_meta /\ online_meta.spotify_url = ShazamTrack.spotify
    /\ "cover_service" \in DOMAIN online_meta /\ online_meta.cover_service = "shazam"

\* the stage was invoked for the current file
Invoked(stage) == \E i \in 1..Len(calls) : calls[i] = stage

\* C28, as the claim states it: the cover lookup of a tagged file is attempted
\* only for a provider result of confidence below 0.3 without a cover.
C28_AsStated ==
    Tagged =>
        /\ pc = "cover_lookup" =>
              /\ QLt(online_meta.confidence, Pct(30))
              /\ ~Truthy(Get(online_meta, "cover_url"))
        /\ Invoked("fingerprint") => QLt(online_meta.confidence, Pct(30))

\* C28, amended: the cover lookup of a tagged file is attempted exactly when
\* the provider result has no cover, whatever its confidence.
C28_CoverTrigger ==
    Tagged =>
        /\ pc = "cover_lookup" =>
              calls = <<"search">> /\ ~Truthy(Get(online_meta, "cover_url"))
        /\ pc = "accept" =>
              \/ calls = <<"search">> /\ Truthy(Get(online_meta, "cover_url"))
              \/ calls = <<"search", "fingerprint">>

\* The lookup is about to be made for a provider result of confidence 0.3 or
\* more.
C28_Witness ==
    /\ Tagged
    /\ pc = "cover_lookup"
    /\ QGe(online_meta.confidence, Pct(30))
    /\ ~Truthy(Get(online_meta, "cover_url"))

\* C29, as the claim states it: the record appended for a file without basic
\* tags whose final result was accepted (confidence above 0.3) suggests an
\* artist and a title.
C29_AsStated ==
    pc = "loop" /\ results # <<>> /\ Untagged /\ QGt(FinalConfidence, Pct(30)) =>
        /\ Truthy(LastRecord.suggested_artist)
        /\ Truthy(LastRecord.suggested_title)

\* ------------------------------------------------- failures cached (SpecCache)

\* recognize_audio: a call that ends with a failure leaves it in the cache
\* under its key, and a call that starts when a failure is stored under its
\* key returns that failure and consults no provider.
AudioFailureCached ==
    /\ \A i \in 1..Len(au_calls) :
           (/\ au_calls[i].at = "store"
            /\ au_calls'[i].at = "returned"
            /\ ~au_calls[i].result.success) =>
               /\ Cached(au_cache', au_calls[i].key)
               /\ Lookup(au_cache', au_calls[i].key) = au_calls[i].result
    /\ Len(au_calls') > Len(au_calls) =>
           LET call == au_calls'[Len(au_calls')]
           IN (/\ call.key # None
               /\ Cached(au_cache, call.key)
               /\ ~Lookup(au_cache, call.key).success) =>
                  /\ call.hit
                  /\ call.at = "returned"
                  /\ call.result = Lookup(au_cache, call.key)
                  /\ call.consulted = <<>>

\* recognize_album: the call that ends stores what it returns under its key,
\* an empty list with confidence 0 when nothing was found or every provider
\* raised, and a call that starts when an empty result is stored under its
\* key returns it and asks no provider.
AlbumFailureCached ==
    /\ (pc = "album_finish" /\ pc' = "album_idle") =>
           /\ Cached(al_cache', GenerateCacheKey(al_in))
           /\ Lookup(al_cache', GenerateCacheKey(al_in)) = al_out'
           /\ al_cands = <<>> =>
                  al_out'.candidates = <<>> /\ al_out'.max_confidence = Zero
    /\ Len(al_hist') > Len(al_hist) =>
           LET call == al_hist'[Len(al_hist')]
           IN (/\ call.files_info # <<>>
               /\ Cached(al_cache, call.key)
               /\ Lookup(al_cache, call.key).candidates = <<>>) =>
                  /\ call.hit
                  /\ al_out' = Lookup(al_cache, call.key)
                  /\ pc' = "album_idle"
                  /\ al_log' = <<>>

\* recognize_audio: a call that reached the except (an unexpected exception
\* occurred) goes on to store its result.
AudioExceptionCached ==
    \A i \in 1..Len(au_calls) :
        (i <= Len(au_calls') /\ au_calls[i].at = "except" /\ au_calls'[i] # au_calls[i]) =>
            au_calls'[i].at = "store"

\* C30 as stated: failed outcomes are cached like successes. A recognize_audio
\* call in which both providers failed or an unexpected exception occurred,
\* and a recognize_album call in which every provider raised, store the
\* failure under the key, and a repeated call with that key returns the
\* stored failure without asking any provider again.
C30_AsStated == [][AudioFailureCached /\ AudioExceptionCached /\ AlbumFailureCached]_vars

\* What the code does keep: a recognize_audio call that reaches the store with
\* a failure (both providers failed, or the except noted its error and its
\* print went through) and every recognize_album call leave their result in
\* the cache under the key, and a call that starts when a failure is stored
\* under its key returns it without asking any provider.
FailuresCached == [][AudioFailureCached /\ AlbumFailureCached]_vars

\* Two recognize_audio calls for one file: both providers failed in the first,
\* the second returned the stored failure without consulting a provider.
FailureRepeated ==
    /\ Len(au_calls) = 2
    /\ au_calls[1].at = "returned" /\ ~au_calls[1].hit
    /\ au_calls[1].consulted = <<"AcoustID", "Shazam">>
    /\ ~au_calls[1].result.success
    /\ au_calls[2].at = "returned" /\ au_calls[2].hit
    /\ au_calls[2].key = au_calls[1].key
    /\ au_calls[2].result = au_calls[1].result
    /\ au_calls[2].consulted = <<>>

\* Two recognize_audio calls for one file: the first left through the except
\* with its print raising, nothing is stored under its key, and the second
\* has consulted AcoustID again.
ExceptionRetried ==
    /\ Len(au_calls) = 2
    /\ au_calls[1].at = "raised" /\ au_calls[1].key # None
    /\ au_calls[2].key = au_calls[1].key
    /\ ~au_calls[2].hit
    /\ au_calls[2].consulted # <<>>
    /\ ~Cached(au_cache, au_calls[1].key)

\* A recognize_audio call whose print of the AcoustID success (line 65)
\* raised: the stored result is a success that carries the error text.
SuccessWithError ==
    \E i \in 1..Len(au_calls) :
        /\ au_calls[i].at = "returned" /\ ~au_calls[i].hit
        /\ au_calls[i].result.success
        /\ au_calls[i].result.error = <<"Unerwarteter Fehler">>
        /\ Lookup(au_cache, au_calls[i].key) = au_calls[i].result

\* Two recognize_album calls with one key: every provider asked raised in the
\* first, the second returned the stored empty result and asked none.
AlbumFailureRepeated ==
    /\ pc = "album_idle"
    /\ Len(al_hist) = 2
    /\ ~al_hist[1].hit /\ al_hist[2].hit
    /\ al_hist[1].files_info # <<>>
    /\ al_hist[1].key = al_hist[2].key
    /\ al_world.artist.kind = "raise"
    /\ al_world.discogs.kind = "raise"
    /\ al_disco
    /\ al_out.candidates = <<>>
    /\ al_log = <<>>

====
